---- MODULE Spec2Model ----
(***************************************************************************)
(* Balance ledger and transaction lifecycle of the instantglobal server.   *)
(*                                                                         *)
(* Money is counted in cents.  The persistent store (MongoDB through       *)
(* mongoose) is the only shared state: the users, cards, gift cards and    *)
(* transactions collections.  A request handler works on documents it has  *)
(* loaded (a private copy), and doc.save() validates the copy against the  *)
(* schema and then writes the fields the handler changed.  Every await of  *)
(* a handler is one step, so the steps of two requests interleave.         *)
(***************************************************************************)
EXTENDS Integers, Sequences, FiniteSets, TLC

VARIABLES
    users,      \* users collection: account buckets per user id
    txns,       \* transactions collection, in creation order
    cards,      \* cards collection (virtual cards), in creation order
    gifts,      \* giftcards collection, by code
    req,        \* the request each handler slot is serving and where it stands
    ops,        \* requests accepted so far
    faults,     \* persistence calls that have thrown so far
    opening,    \* the account buckets the run started from (never changes)
    maxActive,  \* how many requests the server serves at once (never changes)
    strictQuery \* whether the build's mongoose drops filter paths that are not
                \* in the schema (strictQuery) or matches on them (never changes)

vars == <<users, txns, cards, gifts, req, ops, faults, opening, maxActive, strictQuery>>

-----------------------------------------------------------------------------
(* Bounds of the model *)

MaxOps == 3
MaxFaults == 1

Users == {"u1", "u2"}
Reqs == {"r1", "r2"}
Codes == {"GC1", "GC2"}

-----------------------------------------------------------------------------
(* Program constants, in cents *)

VIRTUAL_CARD_FEE == 4900
GIFT_CARD_FEE == 450
GIFT_MIN == 1000
GIFT_MAX == 100000
\* the stored plan: minAmount 10.00, roi 10 percent
PLAN_MIN == 1000
PLAN_ROI == 10
\* the provider's minimum payout, 20.00
PROVIDER_MIN == 2000
\* withdrawalSchema, depositSchema: amount at least 1.00
REQUEST_MIN == 100

-----------------------------------------------------------------------------
(* Documents *)

\* deleted: the user document has been removed from the collection
Acct(d, i, b, w) ==
    [deposit |-> d, interest |-> i, bonus |-> b, withdraw |-> w, deleted |-> FALSE]

NoAcct == Acct(0, 0, 0, 0)
NoCard == [uid |-> "none", status |-> "none", balance |-> 0]
NoGift == [status |-> "none", amount |-> 0, expired |-> FALSE]
\* coin is walletData.coinName ("" when absent) and addr the length of
\* walletData.address (0 when absent)
NoTxn == [type |-> "none", uid |-> "none", status |-> "none", amount |-> 0,
          interest |-> 0, coin |-> "", addr |-> 0, payoutError |-> "none",
          processedAt |-> FALSE]
NoRes == [code |-> "none", available |-> 0, required |-> 0, status |-> "none"]

\* what a payout run has asked of the provider and heard from it
NoProv == [conn |-> "none", bal |-> "none", avail |-> 0, can |-> FALSE,
           calls |-> 0, threw |-> FALSE, dbErr |-> FALSE, out |-> "none",
           totalProcessed |-> 0, totalFailed |-> 0]

NoVal == [valid |-> TRUE, errors |-> {}, warnings |-> {},
          minResp |-> "none", addrResp |-> "none"]

Idle == [op |-> "idle", pc |-> "idle", u |-> "none", amt |-> 0, id |-> 0,
         arg |-> "none", doc |-> NoAcct, orig |-> NoAcct,
         cdoc |-> NoCard, corig |-> NoCard, gdoc |-> NoGift, gorig |-> NoGift,
         tdoc |-> NoTxn, torig |-> NoTxn, wrote |-> FALSE, res |-> NoRes,
         prov |-> NoProv, batch |-> <<>>, todo |-> <<>>, heard |-> {},
         mail |-> "none", audit |-> FALSE, who |-> "none", val |-> NoVal]

\* the user named by user.referral.code, if any
ReferrerOf(u) == IF u = "u1" THEN "u2" ELSE "none"

\* user.isAdmin || user.role === "admin"
IsAdminAccount(u) == u = "u2"

Txn(type, u, status, amount) ==
    [NoTxn EXCEPT !.type = type, !.uid = u, !.status = status,
                  !.amount = amount]

Withdrawal(u, status, amount, coin, addr) ==
    [Txn("withdrawal", u, status, amount) EXCEPT !.coin = coin, !.addr = addr]

Total(a) == a.deposit + a.interest + a.bonus

\* a userSchema without the min: 0 validators
UserValidNoMin(a) == TRUE

\* userSchema: deposit, interest, withdraw and bonus are Numbers with min: 0,
\* which every save() validates
UserValid(a) ==
    /\ a.deposit >= 0
    /\ a.interest >= 0
    /\ a.withdraw >= 0
    /\ a.bonus >= 0

\* cardSchema: balance is a Number with min: 0
CardValid(c) == c.balance >= 0

\* doc.save(): the update sent to the store sets only the paths the handler
\* changed since the document was loaded
Merge(stored, orig, doc) ==
    [f \in DOMAIN stored |-> IF doc[f] # orig[f] THEN doc[f] ELSE stored[f]]

-----------------------------------------------------------------------------
(* banking.ts helpers *)

\* percent(): amount * pct / 100 rounded to the cent; pct is given in tenths
percent(amount, pct10) == (amount * pct10 + 500) \div 1000

\* parseAmount(): throws unless the number is finite and positive
parseAmountOk(val) == val > 0

getAvailableBalance(user) ==
    user.deposit + user.interest + user.bonus - user.withdraw

\* a deduction that draws interest before deposit
DeductBalanceInterestFirst(user, amount) ==
    IF user.interest >= amount
    THEN [user EXCEPT !.interest = @ - amount]
    ELSE [user EXCEPT !.interest = 0,
                      !.deposit = @ - (amount - user.interest)]

\* validateAndDeductBalance(): deposit first, then interest, then bonus
DeductBalance(user, amount) ==
    LET d1 == IF user.deposit >= amount THEN user.deposit - amount ELSE 0
        r1 == IF user.deposit >= amount THEN 0 ELSE amount - user.deposit
        i1 == IF r1 > 0 /\ user.interest >= r1 THEN user.interest - r1
              ELSE IF r1 > 0 THEN 0 ELSE user.interest
        r2 == IF r1 > 0 /\ user.interest >= r1 THEN 0
              ELSE IF r1 > 0 THEN r1 - user.interest ELSE r1
        b1 == IF r2 > 0 /\ user.bonus >= r2 THEN user.bonus - r2
              ELSE IF r2 > 0 THEN 0 ELSE user.bonus
    IN  [user EXCEPT !.deposit = d1, !.interest = i1, !.bonus = b1]

\* a 400 response that reports the two figures the wrong way round
InsufficientResSwapped(available, amount) ==
    [NoRes EXCEPT !.code = "insufficient", !.available = amount,
                  !.required = available]

\* the 400 response of an insufficient balance: "Available: $a, Required: $r"
InsufficientRes(available, amount) ==
    [NoRes EXCEPT !.code = "insufficient", !.available = available,
                  !.required = amount]

Res(code) == [NoRes EXCEPT !.code = code]

-----------------------------------------------------------------------------
(* Request slots *)

Active == {r \in Reqs : req[r].op # "idle"}

\* a new request takes the lowest free slot
FreeSlot(r) ==
    /\ req[r].op = "idle"
    /\ r = "r2" => req["r1"].op # "idle"
    /\ Cardinality(Active) < maxActive
    /\ ops < MaxOps

\* whether the persistence call of this step throws (connection loss, write
\* error): it may, while the model's budget of such failures lasts
Throws == IF faults < MaxFaults THEN BOOLEAN ELSE {FALSE}

Fail(r, code) == [req[r] EXCEPT !.pc = "done", !.res = Res(code)]

\* the response has been sent: the slot is free again
Finish(r) ==
    /\ req[r].pc = "done"
    /\ req' = [req EXCEPT ![r] = Idle]
    /\ UNCHANGED <<users, txns, cards, gifts, ops, faults, opening, maxActive, strictQuery>>

\* the handler goes on at pc next, having written to the store
Goto(r, next) == [req[r] EXCEPT !.pc = next, !.wrote = TRUE]

\* the handler ends with its success response, having written to the store
Ok(r) == [req[r] EXCEPT !.pc = "done", !.res = Res("ok"), !.wrote = TRUE]

\* a mailer helper that logs and rethrows (depositStatus, withdrawStatus,
\* withdrawRequested): a failed send leaves for the route's catch, which
\* answers with an error
MailRethrown(slot, mailThrows) ==
    IF slot.pc = "done" THEN slot
    ELSE IF mailThrows
    THEN [slot EXCEPT !.pc = "done", !.res = Res("error"), !.mail = "failed"]
    ELSE [slot EXCEPT !.mail = "sent"]

\* contract mails that would throw like the others
MailNotSwallowed(slot, mailThrows) == MailRethrown(slot, mailThrows)

\* a mailer helper that returns the error instead of throwing it
\* (contractRejected, contractApproved, contractCompleted,
\* referralCommission, alertAdmin), or a send inside the route's own try
MailSwallowed(slot, mailThrows) ==
    IF slot.pc = "done" THEN slot
    ELSE [slot EXCEPT !.mail = IF mailThrows THEN "failed" ELSE "sent"]

\* await logAudit({... before, after ...}), reached unless the handler has
\* left for its catch block
Audited(slot) ==
    IF slot.pc = "done" THEN slot ELSE [slot EXCEPT !.audit = TRUE]

\* res.json(...), reached unless the handler has left for its catch block
Respond(slot) ==
    IF slot.pc = "done" THEN slot
    ELSE [slot EXCEPT !.pc = "done", !.res = Res("ok")]

\* the slot after its last write to the store, the handler still running
Written(r) == [req[r] EXCEPT !.pc = "tail", !.wrote = TRUE]

\* await user.save() of the slot's user document; after is the slot once the
\* save has resolved
SaveUserThen(r, after) ==
    \E throw \in Throws :
        /\ faults' = faults + (IF throw THEN 1 ELSE 0)
        /\ IF throw \/ ~UserValid(req[r].doc)
           THEN /\ req' = [req EXCEPT ![r] = Fail(r, "error")]
                /\ UNCHANGED users
           ELSE /\ users' = [users EXCEPT ![req[r].u] =
                                Merge(@, req[r].orig, req[r].doc)]
                /\ req' = [req EXCEPT ![r] = after]

SaveUser(r, next) == SaveUserThen(r, Goto(r, next))

\* await txn.save() of the slot's transaction document
SaveTxnThen(r, after) ==
    \E throw \in Throws :
        /\ faults' = faults + (IF throw THEN 1 ELSE 0)
        /\ IF throw
           THEN /\ req' = [req EXCEPT ![r] = Fail(r, "error")]
                /\ UNCHANGED txns
           ELSE /\ txns' = [txns EXCEPT ![req[r].id] =
                               Merge(@, req[r].torig, req[r].tdoc)]
                /\ req' = [req EXCEPT ![r] = after]

\* await Transaction.create(t), or save() of a new Transaction(t); after is
\* the slot once it has resolved
CreateTxnThen(r, t, after) ==
    \E throw \in Throws :
        /\ faults' = faults + (IF throw THEN 1 ELSE 0)
        /\ IF throw
           THEN /\ req' = [req EXCEPT ![r] = Fail(r, "error")]
                /\ UNCHANGED txns
           ELSE /\ txns' = Append(txns, t)
                /\ req' = [req EXCEPT ![r] = after]

\* await Transaction.create(t) as the handler's last step, then the response
CreateTxn(r, t) == CreateTxnThen(r, t, Ok(r))

-----------------------------------------------------------------------------
(* banking.ts: the routes that debit through validateAndDeductBalance *)

DebitTypes == {"external_transfer", "crypto_withdrawal", "gift_card_purchase",
               "virtual_card_purchase", "flight_booking"}

DebitStatus(type) ==
    IF type \in {"external_transfer", "crypto_withdrawal"}
    THEN "pending" ELSE "completed"

\* validateAndDeductBalance() up to its save: the check and the deduction on
\* the loaded document
validateAndDeductBalance(slot, user, amount) ==
    IF getAvailableBalance(user) < amount
    THEN [slot EXCEPT !.pc = "done",
                      !.res = InsufficientRes(getAvailableBalance(user), amount)]
    ELSE [slot EXCEPT !.pc = "save", !.doc = DeductBalance(user, amount)]

\* a debit route from parseAmount to validateAndDeductBalance's save
DebitBegin(r, type, u, amount, totalDebit) ==
    /\ FreeSlot(r)
    /\ ops' = ops + 1
    /\ LET user == users[u]
           slot == [Idle EXCEPT !.op = type, !.u = u, !.amt = totalDebit,
                                !.orig = user, !.doc = user]
       IN  req' = [req EXCEPT ![r] =
               IF ~parseAmountOk(amount)
               THEN [slot EXCEPT !.pc = "done", !.res = Res("invalid")]
               ELSE validateAndDeductBalance(slot, user, totalDebit)]
    /\ UNCHANGED <<users, txns, cards, gifts, faults, opening, maxActive, strictQuery>>

ExternalTransfer(r, u, amount) ==
    DebitBegin(r, "external_transfer", u, amount, amount + percent(amount, 25))

CryptoWithdraw(r, u, amount) ==
    DebitBegin(r, "crypto_withdrawal", u, amount, amount)

GiftcardPurchase(r, u, amount, fee) ==
    DebitBegin(r, "gift_card_purchase", u, amount, amount + fee)

VirtualCardPurchase(r, u, amount, fee) ==
    DebitBegin(r, "virtual_card_purchase", u, amount,
               amount + (IF fee # 0 THEN fee ELSE VIRTUAL_CARD_FEE))

FlightBook(r, u, amount) ==
    DebitBegin(r, "flight_booking", u, amount, amount + percent(amount, 18))

\* validateAndDeductBalance: await user.save()
DebitSave(r) ==
    /\ req[r].op \in DebitTypes
    /\ req[r].pc = "save"
    /\ SaveUser(r, "create")
    /\ UNCHANGED <<txns, cards, gifts, ops, opening, maxActive, strictQuery>>

\* await Transaction.create({... amount: totalDebit * -1 ...}), then res.json
DebitCreate(r) ==
    /\ req[r].op \in DebitTypes
    /\ req[r].pc = "create"
    /\ CreateTxn(r, Txn(req[r].op, req[r].u, DebitStatus(req[r].op),
                        req[r].amt * (-1)))
    /\ UNCHANGED <<users, cards, gifts, ops, opening, maxActive, strictQuery>>

-----------------------------------------------------------------------------
(* cards.ts: virtual cards *)

Card(u, status, balance) == [uid |-> u, status |-> status, balance |-> balance]

\* POST /issue: deposit, then interest, then whatever is left from bonus
DeductIssue(user, totalDebit) ==
    LET d1 == IF user.deposit >= totalDebit THEN user.deposit - totalDebit ELSE 0
        r1 == IF user.deposit >= totalDebit THEN 0 ELSE totalDebit - user.deposit
        i1 == IF r1 > 0 /\ user.interest >= r1 THEN user.interest - r1
              ELSE IF r1 > 0 THEN 0 ELSE user.interest
        r2 == IF r1 > 0 /\ user.interest >= r1 THEN 0
              ELSE IF r1 > 0 THEN r1 - user.interest ELSE r1
        b1 == IF r2 > 0 THEN user.bonus - r2 ELSE user.bonus
    IN  [user EXCEPT !.deposit = d1, !.interest = i1, !.bonus = b1]

\* POST /:id/fund: deposit, then the rest from interest
DeductFund(user, fundAmount) ==
    IF user.deposit >= fundAmount
    THEN [user EXCEPT !.deposit = @ - fundAmount]
    ELSE [user EXCEPT !.deposit = 0,
                      !.interest = @ - (fundAmount - user.deposit)]

\* POST /issue up to user.save(): amount = Number(fundingAmount) || 0
CardIssue(r, u, fundingAmount) ==
    /\ FreeSlot(r)
    /\ ops' = ops + 1
    /\ LET user == users[u]
           totalDebit == fundingAmount + VIRTUAL_CARD_FEE
           slot == [Idle EXCEPT !.op = "card_issue", !.u = u,
                                !.amt = totalDebit, !.orig = user, !.doc = user,
                                !.cdoc = Card(u, "active", fundingAmount)]
       IN  req' = [req EXCEPT ![r] =
               IF getAvailableBalance(user) < totalDebit
               THEN [slot EXCEPT !.pc = "done",
                        !.res = InsufficientRes(getAvailableBalance(user),
                                                totalDebit)]
               ELSE [slot EXCEPT !.pc = "save",
                                 !.doc = DeductIssue(user, totalDebit)]]
    /\ UNCHANGED <<users, txns, cards, gifts, faults, opening, maxActive, strictQuery>>

\* POST /issue: await user.save()
CardIssueSave(r) ==
    /\ req[r].op = "card_issue"
    /\ req[r].pc = "save"
    /\ SaveUser(r, "card")
    /\ UNCHANGED <<txns, cards, gifts, ops, opening, maxActive, strictQuery>>

\* POST /issue: await Card.create({... balance: amount ...})
CardIssueCreate(r) ==
    /\ req[r].op = "card_issue"
    /\ req[r].pc = "card"
    /\ \E throw \in Throws :
        /\ faults' = faults + (IF throw THEN 1 ELSE 0)
        /\ IF throw \/ ~CardValid(req[r].cdoc)
           THEN /\ req' = [req EXCEPT ![r] = Fail(r, "error")]
                /\ UNCHANGED cards
           ELSE /\ cards' = Append(cards, req[r].cdoc)
                /\ req' = [req EXCEPT ![r].pc = "create"]
    /\ UNCHANGED <<users, txns, gifts, ops, opening, maxActive, strictQuery>>

\* POST /issue: await Transaction.create(virtual_card_purchase), then 201
CardIssueTxn(r) ==
    /\ req[r].op = "card_issue"
    /\ req[r].pc = "create"
    /\ CreateTxn(r, Txn("virtual_card_purchase", req[r].u, "completed",
                        req[r].amt * (-1)))
    /\ UNCHANGED <<users, cards, gifts, ops, opening, maxActive, strictQuery>>

\* Card.findOne({_id: id, userId}): the card, if it is the principal's
FindCard(id, u) ==
    IF id \in 1..Len(cards) /\ cards[id].uid = u THEN cards[id] ELSE NoCard

\* POST /:id/fund up to the two saves
CardFund(r, u, id, fundAmount) ==
    /\ FreeSlot(r)
    /\ ops' = ops + 1
    /\ LET user == users[u]
           card == FindCard(id, u)
           slot == [Idle EXCEPT !.op = "card_funding", !.u = u, !.id = id,
                                !.amt = fundAmount, !.orig = user, !.doc = user,
                                !.corig = card, !.cdoc = card]
       IN  req' = [req EXCEPT ![r] =
               IF fundAmount <= 0
               THEN [slot EXCEPT !.pc = "done", !.res = Res("invalid")]
               ELSE IF card = NoCard
               THEN [slot EXCEPT !.pc = "done", !.res = Res("not_found")]
               ELSE IF card.status # "active"
               THEN [slot EXCEPT !.pc = "done", !.res = Res("not_active")]
               ELSE IF getAvailableBalance(user) < fundAmount
               THEN [slot EXCEPT !.pc = "done",
                        !.res = [NoRes EXCEPT !.code = "insufficient",
                                    !.available = getAvailableBalance(user)]]
               ELSE [slot EXCEPT !.pc = "save",
                        !.doc = DeductFund(user, fundAmount),
                        !.cdoc = [card EXCEPT !.balance = @ + fundAmount]]]
    /\ UNCHANGED <<users, txns, cards, gifts, faults, opening, maxActive, strictQuery>>

\* POST /:id/fund: await Promise.all([user.save(), card.save()]); both saves
\* are under way when one of them rejects, so the other still writes
CardFundSave(r) ==
    /\ req[r].op = "card_funding"
    /\ req[r].pc = "save"
    /\ \E throw \in Throws, which \in {"user", "card"} :
        LET userOk == UserValid(req[r].doc) /\ ~(throw /\ which = "user")
            cardOk == CardValid(req[r].cdoc) /\ ~(throw /\ which = "card")
        IN  /\ faults' = faults + (IF throw THEN 1 ELSE 0)
            /\ users' = IF userOk
                        THEN [users EXCEPT ![req[r].u] =
                                 Merge(@, req[r].orig, req[r].doc)]
                        ELSE users
            /\ cards' = IF cardOk
                        THEN [cards EXCEPT ![req[r].id] =
                                 Merge(@, req[r].corig, req[r].cdoc)]
                        ELSE cards
            /\ req' = [req EXCEPT ![r] =
                          IF userOk /\ cardOk
                          THEN [req[r] EXCEPT !.pc = "create", !.wrote = TRUE]
                          ELSE [Fail(r, "error") EXCEPT
                                    !.wrote = userOk \/ cardOk]]
    /\ UNCHANGED <<txns, gifts, ops, opening, maxActive, strictQuery>>

\* POST /:id/fund: await Transaction.create(card_funding), then the response
CardFundTxn(r) ==
    /\ req[r].op = "card_funding"
    /\ req[r].pc = "create"
    /\ CreateTxn(r, Txn("card_funding", req[r].u, "completed",
                        req[r].amt * (-1)))
    /\ UNCHANGED <<users, cards, gifts, ops, opening, maxActive, strictQuery>>

\* POST /:id/freeze up to card.save(): toggles frozen and active
CardFreeze(r, u, id) ==
    /\ FreeSlot(r)
    /\ ops' = ops + 1
    /\ LET card == FindCard(id, u)
           slot == [Idle EXCEPT !.op = "card_freeze", !.u = u, !.id = id,
                                !.corig = card, !.cdoc = card]
       IN  req' = [req EXCEPT ![r] =
               IF card = NoCard
               THEN [slot EXCEPT !.pc = "done", !.res = Res("not_found")]
               ELSE IF card.status \in {"cancelled", "expired"}
               THEN [slot EXCEPT !.pc = "done", !.res = Res("cannot_modify")]
               ELSE [slot EXCEPT !.pc = "savecard",
                        !.cdoc = [card EXCEPT !.status =
                            IF card.status = "frozen" THEN "active" ELSE "frozen"]]]
    /\ UNCHANGED <<users, txns, cards, gifts, faults, opening, maxActive, strictQuery>>

\* POST /:id/cancel up to its first save
CardCancel(r, u, id) ==
    /\ FreeSlot(r)
    /\ ops' = ops + 1
    /\ LET user == users[u]
           card == FindCard(id, u)
           refundAmount == card.balance
           slot == [Idle EXCEPT !.op = "card_refund", !.u = u, !.id = id,
                                !.amt = refundAmount, !.orig = user, !.doc = user,
                                !.corig = card, !.cdoc = card]
       IN  req' = [req EXCEPT ![r] =
               IF card = NoCard
               THEN [slot EXCEPT !.pc = "done", !.res = Res("not_found")]
               ELSE IF card.status = "cancelled"
               THEN [slot EXCEPT !.pc = "done", !.res = Res("already_cancelled")]
               ELSE IF refundAmount > 0
               THEN [slot EXCEPT !.pc = "save",
                        !.doc = [user EXCEPT !.deposit = @ + refundAmount]]
               ELSE [slot EXCEPT !.pc = "savecard",
                        !.cdoc = [card EXCEPT !.status = "cancelled",
                                              !.balance = 0]]]
    /\ UNCHANGED <<users, txns, cards, gifts, faults, opening, maxActive, strictQuery>>

\* POST /:id/cancel: await user.save() of the refund
CardCancelSave(r) ==
    /\ req[r].op = "card_refund"
    /\ req[r].pc = "save"
    /\ SaveUser(r, "create")
    /\ UNCHANGED <<txns, cards, gifts, ops, opening, maxActive, strictQuery>>

\* POST /:id/cancel: await Transaction.create(card_refund); then the card is
\* marked cancelled and emptied in memory
CardCancelTxn(r) ==
    /\ req[r].op = "card_refund"
    /\ req[r].pc = "create"
    /\ \E throw \in Throws :
        /\ faults' = faults + (IF throw THEN 1 ELSE 0)
        /\ IF throw
           THEN /\ req' = [req EXCEPT ![r] = Fail(r, "error")]
                /\ UNCHANGED txns
           ELSE /\ txns' = Append(txns, Txn("card_refund", req[r].u,
                                            "completed", req[r].amt))
                /\ req' = [req EXCEPT ![r].pc = "savecard",
                              ![r].cdoc = [@ EXCEPT !.status = "cancelled",
                                                    !.balance = 0]]
    /\ UNCHANGED <<users, cards, gifts, ops, opening, maxActive, strictQuery>>

\* freeze and cancel: await card.save(), then the response
CardSave(r) ==
    /\ req[r].op \in {"card_freeze", "card_refund"}
    /\ req[r].pc = "savecard"
    /\ \E throw \in Throws :
        /\ faults' = faults + (IF throw THEN 1 ELSE 0)
        /\ IF throw \/ ~CardValid(req[r].cdoc)
           THEN /\ req' = [req EXCEPT ![r] = Fail(r, "error")]
                /\ UNCHANGED cards
           ELSE /\ cards' = [cards EXCEPT ![req[r].id] =
                                Merge(@, req[r].corig, req[r].cdoc)]
                /\ req' = [req EXCEPT ![r] = Fail(r, "ok"), ![r].wrote = TRUE]
    /\ UNCHANGED <<users, txns, gifts, ops, opening, maxActive, strictQuery>>

-----------------------------------------------------------------------------
(* giftcards routes: issue and redeem *)

Gift(status, amount) == [status |-> status, amount |-> amount, expired |-> FALSE]

\* validateAndDeductBalance() of the giftcards routes: the same order, the
\* bonus step unguarded
DeductGift(user, amount) ==
    IF user.deposit >= amount
    THEN [user EXCEPT !.deposit = @ - amount]
    ELSE LET r1 == amount - user.deposit
         IN  IF user.interest >= r1
             THEN [user EXCEPT !.deposit = 0, !.interest = @ - r1]
             ELSE [user EXCEPT !.deposit = 0, !.interest = 0,
                               !.bonus = @ - (r1 - user.interest)]

\* POST /issue up to validateAndDeductBalance's save
GiftIssue(r, u, cardAmount) ==
    /\ FreeSlot(r)
    /\ ops' = ops + 1
    /\ LET user == users[u]
           totalCost == cardAmount + GIFT_CARD_FEE
           slot == [Idle EXCEPT !.op = "gift_issue", !.u = u,
                                !.amt = totalCost, !.orig = user, !.doc = user,
                                !.gdoc = Gift("active", cardAmount)]
       IN  req' = [req EXCEPT ![r] =
               IF cardAmount < GIFT_MIN \/ cardAmount > GIFT_MAX
               THEN [slot EXCEPT !.pc = "done", !.res = Res("invalid")]
               ELSE IF getAvailableBalance(user) < totalCost
               THEN [slot EXCEPT !.pc = "done",
                        !.res = InsufficientRes(getAvailableBalance(user),
                                                totalCost)]
               ELSE [slot EXCEPT !.pc = "save",
                                 !.doc = DeductGift(user, totalCost)]]
    /\ UNCHANGED <<users, txns, cards, gifts, faults, opening, maxActive, strictQuery>>

\* POST /issue: validateAndDeductBalance's await user.save()
GiftIssueSave(r) ==
    /\ req[r].op = "gift_issue"
    /\ req[r].pc = "save"
    /\ SaveUser(r, "gift")
    /\ UNCHANGED <<txns, cards, gifts, ops, opening, maxActive, strictQuery>>

\* POST /issue: a code no gift card has yet, then await GiftCard.create()
GiftIssueCreate(r) ==
    /\ req[r].op = "gift_issue"
    /\ req[r].pc = "gift"
    /\ \E throw \in Throws :
        /\ faults' = faults + (IF throw THEN 1 ELSE 0)
        /\ LET free == {c \in Codes : gifts[c] = NoGift}
           IN  IF throw \/ free = {}
               THEN /\ req' = [req EXCEPT ![r] = Fail(r, "error")]
                    /\ UNCHANGED gifts
               ELSE \E code \in free :
                    /\ gifts' = [gifts EXCEPT ![code] = req[r].gdoc]
                    /\ req' = [req EXCEPT ![r].pc = "create"]
    /\ UNCHANGED <<users, txns, cards, ops, opening, maxActive, strictQuery>>

\* POST /issue: await Transaction.create(gift_card_purchase), then the response
GiftIssueTxn(r) ==
    /\ req[r].op = "gift_issue"
    /\ req[r].pc = "create"
    /\ CreateTxn(r, Txn("gift_card_purchase", req[r].u, "completed",
                        req[r].amt * (-1)))
    /\ UNCHANGED <<users, cards, gifts, ops, opening, maxActive, strictQuery>>

\* time passes beyond a gift card's expiresAt
GiftExpires(code) ==
    /\ gifts[code].status = "active"
    /\ ~gifts[code].expired
    /\ gifts' = [gifts EXCEPT ![code].expired = TRUE]
    /\ UNCHANGED <<users, txns, cards, req, ops, faults, opening, maxActive, strictQuery>>

\* POST /redeem: await GiftCard.findOne({code}) and the checks on the card
GiftRedeem(r, u, code) ==
    /\ FreeSlot(r)
    /\ ops' = ops + 1
    /\ LET giftcard == gifts[code]
           slot == [Idle EXCEPT !.op = "gift_redeem", !.u = u, !.arg = code,
                                !.amt = giftcard.amount,
                                !.gorig = giftcard, !.gdoc = giftcard]
       IN  req' = [req EXCEPT ![r] =
               IF giftcard = NoGift
               THEN [slot EXCEPT !.pc = "done", !.res = Res("not_found")]
               ELSE IF giftcard.status # "active"
               THEN [slot EXCEPT !.pc = "done",
                                 !.res = Res("gift_is_" \o giftcard.status)]
               ELSE IF giftcard.expired
               THEN [slot EXCEPT !.pc = "expire",
                                 !.gdoc = [giftcard EXCEPT !.status = "expired"]]
               ELSE [slot EXCEPT !.pc = "user"]]
    /\ UNCHANGED <<users, txns, cards, gifts, faults, opening, maxActive, strictQuery>>

\* giftcard.save() of the slot's gift card document
SaveGift(r) == [gifts EXCEPT ![req[r].arg] = Merge(@, req[r].gorig, req[r].gdoc)]

\* POST /redeem: the card has expired: await giftcard.save(), then 400
GiftRedeemExpire(r) ==
    /\ req[r].op = "gift_redeem"
    /\ req[r].pc = "expire"
    /\ \E throw \in Throws :
        /\ faults' = faults + (IF throw THEN 1 ELSE 0)
        /\ IF throw
           THEN /\ req' = [req EXCEPT ![r] = Fail(r, "error")]
                /\ UNCHANGED gifts
           ELSE /\ gifts' = SaveGift(r)
                /\ req' = [req EXCEPT ![r] = Fail(r, "gift_expired"),
                                      ![r].wrote = TRUE]
    /\ UNCHANGED <<users, txns, cards, ops, opening, maxActive, strictQuery>>

\* POST /redeem: await User.findById(userId), then the credit in memory
GiftRedeemUser(r) ==
    /\ req[r].op = "gift_redeem"
    /\ req[r].pc = "user"
    /\ LET user == users[req[r].u]
       IN  req' = [req EXCEPT ![r].pc = "save", ![r].orig = user,
                      ![r].doc = [user EXCEPT !.deposit = @ + req[r].gdoc.amount]]
    /\ UNCHANGED <<users, txns, cards, gifts, ops, faults, opening, maxActive, strictQuery>>

\* POST /redeem: await user.save(); then the card is marked redeemed in memory
GiftRedeemSave(r) ==
    /\ req[r].op = "gift_redeem"
    /\ req[r].pc = "save"
    /\ SaveUser(r, "gift")
    /\ UNCHANGED <<txns, cards, gifts, ops, opening, maxActive, strictQuery>>

\* POST /redeem: giftcard.status = "redeemed"; await giftcard.save()
GiftRedeemMark(r) ==
    /\ req[r].op = "gift_redeem"
    /\ req[r].pc = "gift"
    /\ \E throw \in Throws :
        /\ faults' = faults + (IF throw THEN 1 ELSE 0)
        /\ IF throw
           THEN /\ req' = [req EXCEPT ![r] = Fail(r, "error")]
                /\ UNCHANGED gifts
           ELSE /\ gifts' = [gifts EXCEPT ![req[r].arg] =
                    Merge(@, req[r].gorig,
                          [req[r].gdoc EXCEPT !.status = "redeemed"])]
                /\ req' = [req EXCEPT ![r].pc = "create"]
    /\ UNCHANGED <<users, txns, cards, ops, opening, maxActive, strictQuery>>

\* POST /redeem: await Transaction.create(gift_card_redemption), then the
\* response
GiftRedeemTxn(r) ==
    /\ req[r].op = "gift_redeem"
    /\ req[r].pc = "create"
    /\ CreateTxn(r, Txn("gift_card_redemption", req[r].u, "completed",
                        req[r].amt))
    /\ UNCHANGED <<users, cards, gifts, ops, opening, maxActive, strictQuery>>

-----------------------------------------------------------------------------
(* deposits routes: processDepositDecision *)

\* Transaction.findById(id)
FindTxn(id) == IF id \in 1..Len(txns) THEN txns[id] ELSE NoTxn

\* processDepositDecision: the status check and await Transaction.findById(id)
DepositDecision(r, id, status) ==
    /\ FreeSlot(r)
    /\ ops' = ops + 1
    /\ LET deposit == FindTxn(id)
           slot == [Idle EXCEPT !.op = "deposit_decision", !.id = id,
                                !.arg = status, !.u = deposit.uid,
                                !.torig = deposit, !.tdoc = deposit]
       IN  req' = [req EXCEPT ![r] =
               IF status \notin {"approved", "rejected"}
               THEN [slot EXCEPT !.pc = "done", !.res = Res("invalid")]
               ELSE IF deposit = NoTxn
               THEN [slot EXCEPT !.pc = "done", !.res = Res("not_found")]
               ELSE [slot EXCEPT !.pc = "user"]]
    /\ UNCHANGED <<users, txns, cards, gifts, faults, opening, maxActive, strictQuery>>

\* await User.findOne({email}), the admin-account guard, deposit.status = status
DepositUser(r) ==
    /\ req[r].op = "deposit_decision"
    /\ req[r].pc = "user"
    /\ LET user == users[req[r].u]
       IN  req' = [req EXCEPT ![r] =
               IF IsAdminAccount(req[r].u)
               THEN Fail(r, "restricted")
               ELSE [req[r] EXCEPT !.pc = "savetx", !.orig = user, !.doc = user,
                                   !.amt = req[r].tdoc.amount,
                                   !.tdoc = [@ EXCEPT !.status = req[r].arg]]]
    /\ UNCHANGED <<users, txns, cards, gifts, ops, faults, opening, maxActive, strictQuery>>

\* await deposit.save(); an approval then credits user.deposit in memory, a
\* rejection goes on to the mail, the audit event and the response
DepositSaveTxn(r) ==
    /\ req[r].op = "deposit_decision"
    /\ req[r].pc = "savetx"
    /\ \E mailThrows \in BOOLEAN :
         SaveTxnThen(r, IF req[r].arg = "approved"
                        THEN [Goto(r, "save") EXCEPT
                                  !.doc = [@ EXCEPT !.deposit = @ + req[r].amt]]
                        ELSE Respond(Audited(MailRethrown(Written(r), mailThrows))))
    /\ UNCHANGED <<users, cards, gifts, ops, opening, maxActive, strictQuery>>

\* await user.save(); then, if the user has a referral code,
\* await User.findOne({username: code}) comes next
DepositSaveUser(r) ==
    /\ req[r].op = "deposit_decision"
    /\ req[r].pc = "save"
    /\ \E mailThrows \in BOOLEAN :
         SaveUserThen(r, IF ReferrerOf(req[r].u) = "none"
                         THEN Respond(Audited(MailRethrown(Written(r), mailThrows)))
                         ELSE Goto(r, "referrer"))
    /\ UNCHANGED <<txns, cards, gifts, ops, opening, maxActive, strictQuery>>

\* await User.findOne({username: user.referral.code}); bonus = amount * 0.05
DepositReferrer(r) ==
    /\ req[r].op = "deposit_decision"
    /\ req[r].pc = "referrer"
    /\ LET referrer == users[ReferrerOf(req[r].u)]
           bonus == (req[r].amt * 5) \div 100
       IN  req' = [req EXCEPT ![r].pc = "saveref", ![r].u = ReferrerOf(req[r].u),
                      ![r].orig = referrer,
                      ![r].doc = [referrer EXCEPT !.deposit = @ + bonus]]
    /\ UNCHANGED <<users, txns, cards, gifts, ops, faults, opening, maxActive, strictQuery>>

\* await referrer.save(), then the mails, the audit event and the response
DepositSaveReferrer(r) ==
    /\ req[r].op = "deposit_decision"
    /\ req[r].pc = "saveref"
    /\ \E refMailThrows \in BOOLEAN, mailThrows \in BOOLEAN :
         SaveUserThen(r, Respond(Audited(MailRethrown(
                            MailSwallowed(Written(r), refMailThrows), mailThrows))))
    /\ UNCHANGED <<txns, cards, gifts, ops, opening, maxActive, strictQuery>>

-----------------------------------------------------------------------------
(* withdrawals routes: PUT /:id *)

\* PUT /:id: the status check and await Transaction.findById(id)
WithdrawalUpdate(r, id, status) ==
    /\ FreeSlot(r)
    /\ ops' = ops + 1
    /\ LET withdrawal == FindTxn(id)
           slot == [Idle EXCEPT !.op = "withdrawal_update", !.id = id,
                                !.arg = status, !.u = withdrawal.uid,
                                !.torig = withdrawal, !.tdoc = withdrawal]
       IN  req' = [req EXCEPT ![r] =
               IF status \notin {"approved", "rejected", "processing", "pending"}
               THEN [slot EXCEPT !.pc = "done", !.res = Res("invalid")]
               ELSE IF withdrawal = NoTxn
               THEN [slot EXCEPT !.pc = "done", !.res = Res("not_found")]
               ELSE [slot EXCEPT !.pc = "user"]]
    /\ UNCHANGED <<users, txns, cards, gifts, faults, opening, maxActive, strictQuery>>

\* approving a pending withdrawal: deposit first, the rest from interest, and
\* the amount added to withdraw
DeductWithdrawal(user, amount) ==
    IF user.deposit >= amount
    THEN [user EXCEPT !.deposit = @ - amount, !.withdraw = @ + amount]
    ELSE [user EXCEPT !.deposit = 0,
                      !.interest = @ - (amount - user.deposit),
                      !.withdraw = @ + amount]

\* an approval that skips the funds check
WithdrawalRefusedNever(user, amount) == FALSE

\* amount > totalBalance, with totalBalance = user.deposit + user.interest
WithdrawalRefused(user, amount) == amount > user.deposit + user.interest

\* await User.findOne({email}), the admin-account guard, withdrawal.status =
\* status and, approving a pending withdrawal, the funds check and deduction
WithdrawalUser(r) ==
    /\ req[r].op = "withdrawal_update"
    /\ req[r].pc = "user"
    /\ LET user == users[req[r].u]
           amount == req[r].tdoc.amount
           previousStatus == req[r].tdoc.status
           slot == [req[r] EXCEPT !.orig = user, !.doc = user, !.amt = amount,
                                  !.tdoc = [@ EXCEPT !.status = req[r].arg]]
       IN  req' = [req EXCEPT ![r] =
               IF IsAdminAccount(req[r].u)
               THEN Fail(r, "restricted")
               ELSE IF req[r].arg = "approved" /\ previousStatus = "pending"
               THEN IF WithdrawalRefused(user, amount)
                    THEN [slot EXCEPT !.pc = "done",
                                      !.res = Res("insufficient")]
                    ELSE [slot EXCEPT !.pc = "save",
                                      !.doc = DeductWithdrawal(user, amount)]
               ELSE [slot EXCEPT !.pc = "save"]]
    /\ UNCHANGED <<users, txns, cards, gifts, ops, faults, opening, maxActive, strictQuery>>

\* await user.save()
WithdrawalSaveUser(r) ==
    /\ req[r].op = "withdrawal_update"
    /\ req[r].pc = "save"
    /\ SaveUserThen(r, [req[r] EXCEPT !.pc = "savetx",
                                      !.wrote = req[r].doc # req[r].orig])
    /\ UNCHANGED <<txns, cards, gifts, ops, opening, maxActive, strictQuery>>

\* await withdrawal.save(), then the mail (none for status pending), the
\* audit event and the response
WithdrawalSaveTxn(r) ==
    /\ req[r].op = "withdrawal_update"
    /\ req[r].pc = "savetx"
    /\ \E mailThrows \in BOOLEAN :
         SaveTxnThen(r, Respond(Audited(
                           IF req[r].arg = "pending" THEN Written(r)
                           ELSE MailRethrown(Written(r), mailThrows))))
    /\ UNCHANGED <<users, cards, gifts, ops, opening, maxActive, strictQuery>>

\* banking.ts POST /admin/transactions/:id/approve: one
\* Transaction.findByIdAndUpdate(id, {status: "completed"}), whatever the
\* record's type and status
TxnApprove(r, id) ==
    /\ FreeSlot(r)
    /\ ops' = ops + 1
    /\ LET txn == FindTxn(id)
           slot == [Idle EXCEPT !.op = "txn_approve", !.id = id, !.u = txn.uid,
                                !.torig = txn, !.tdoc = txn, !.pc = "done"]
       IN  \E throw \in Throws :
            /\ faults' = faults + (IF throw THEN 1 ELSE 0)
            /\ IF throw
               THEN /\ req' = [req EXCEPT ![r] = [slot EXCEPT !.res = Res("error")]]
                    /\ UNCHANGED txns
               ELSE IF txn = NoTxn
               THEN /\ req' = [req EXCEPT ![r] =
                                  [slot EXCEPT !.res = Res("not_found")]]
                    /\ UNCHANGED txns
               ELSE /\ txns' = [txns EXCEPT ![id].status = "completed",
                                            ![id].processedAt = TRUE]
                    /\ req' = [req EXCEPT ![r] =
                                  [slot EXCEPT !.res = Res("ok"), !.wrote = TRUE,
                                               !.tdoc = txns'[id]]]
    /\ UNCHANGED <<users, cards, gifts, opening, maxActive, strictQuery>>

-----------------------------------------------------------------------------
(* plans routes: PUT /contract/:id *)

Contract(u, status, amount, interest) ==
    [Txn("contract", u, status, amount) EXCEPT !.interest = interest]

\* POST /contract up to user.save(): the plan's minimum, the check of the
\* deposit bucket and the deduction of the stake in memory.  The route has no
\* requireAuth: who is the caller (an account, or nobody the server knows),
\* u the userId of the body.
ContractCreate(r, who, u, amount) ==
    /\ FreeSlot(r)
    /\ ops' = ops + 1
    /\ LET user == users[u]
           slot == [Idle EXCEPT !.op = "contract_create", !.u = u, !.who = who,
                                !.amt = amount, !.orig = user, !.doc = user]
       IN  req' = [req EXCEPT ![r] =
               IF amount < PLAN_MIN
               THEN [slot EXCEPT !.pc = "done", !.res = Res("invalid")]
               ELSE IF user.deposit < amount
               THEN [slot EXCEPT !.pc = "done",
                        !.res = [NoRes EXCEPT !.code = "insufficient",
                                    !.available = user.deposit]]
               ELSE [slot EXCEPT !.pc = "save",
                        !.doc = [user EXCEPT !.deposit = @ - amount]]]
    /\ UNCHANGED <<users, txns, cards, gifts, faults, opening, maxActive, strictQuery>>

\* POST /contract: await user.save()
ContractCreateSave(r) ==
    /\ req[r].op = "contract_create"
    /\ req[r].pc = "save"
    /\ SaveUser(r, "create")
    /\ UNCHANGED <<txns, cards, gifts, ops, opening, maxActive, strictQuery>>

\* POST /contract: await transaction.save() of the active contract with
\* planData.interest = amount * plan.roi / 100, then the mail and the response
ContractCreateTxn(r) ==
    /\ req[r].op = "contract_create"
    /\ req[r].pc = "create"
    /\ \E mailThrows \in BOOLEAN :
         CreateTxnThen(r, Contract(req[r].u, "active", req[r].amt,
                                   (req[r].amt * PLAN_ROI) \div 100),
                       Respond(MailSwallowed(Written(r), mailThrows)))
    /\ UNCHANGED <<users, cards, gifts, ops, opening, maxActive, strictQuery>>

\* a rejection that gives nothing back
ContractRefundNone(user, amount) == user

\* user.deposit += Number(transaction.amount)
ContractRefund(user, amount) == [user EXCEPT !.deposit = @ + amount]

\* PUT /contract/:id: await Transaction.findById(id); 404 unless a contract
ContractUpdate(r, id, status) ==
    /\ FreeSlot(r)
    /\ ops' = ops + 1
    /\ LET transaction == FindTxn(id)
           slot == [Idle EXCEPT !.op = "contract_update", !.id = id,
                                !.arg = status, !.u = transaction.uid,
                                !.torig = transaction, !.tdoc = transaction]
       IN  req' = [req EXCEPT ![r] =
               IF transaction = NoTxn \/ transaction.type # "contract"
               THEN [slot EXCEPT !.pc = "done", !.res = Res("not_found")]
               ELSE [slot EXCEPT !.pc = "user"]]
    /\ UNCHANGED <<users, txns, cards, gifts, faults, opening, maxActive, strictQuery>>

\* await User.findById(transaction.user.id); transaction.status = status; a
\* rejection refunds the amount and zeroes it, a completion pays the amount
\* and the plan's interest
ContractUser(r) ==
    /\ req[r].op = "contract_update"
    /\ req[r].pc = "user"
    /\ LET user == users[req[r].u]
           t == req[r].tdoc
           slot == [req[r] EXCEPT !.orig = user, !.doc = user, !.amt = t.amount,
                                  !.tdoc = [@ EXCEPT !.status = req[r].arg]]
       IN  \E mailThrows \in BOOLEAN : req' = [req EXCEPT ![r] =
               IF req[r].arg = "rejected"
               THEN [slot EXCEPT !.pc = "save",
                        !.doc = ContractRefund(user, t.amount),
                        !.tdoc = [@ EXCEPT !.amount = 0]]
               ELSE IF req[r].arg = "completed"
               THEN [slot EXCEPT !.pc = "save",
                        !.doc = [user EXCEPT !.deposit = @ + t.amount,
                                             !.interest = @ + t.interest]]
               ELSE IF req[r].arg = "active"
               THEN MailSwallowed([slot EXCEPT !.pc = "savetx"], mailThrows)
               ELSE [slot EXCEPT !.pc = "savetx"]]
    /\ UNCHANGED <<users, txns, cards, gifts, ops, faults, opening, maxActive, strictQuery>>

\* await user.save(), then the mail
ContractSaveUser(r) ==
    /\ req[r].op = "contract_update"
    /\ req[r].pc = "save"
    /\ \E mailThrows \in BOOLEAN :
         SaveUserThen(r, MailSwallowed(
                            [req[r] EXCEPT !.pc = "savetx",
                                           !.wrote = req[r].doc # req[r].orig],
                            mailThrows))
    /\ UNCHANGED <<txns, cards, gifts, ops, opening, maxActive, strictQuery>>

\* await transaction.save(), then the response
ContractSaveTxn(r) ==
    /\ req[r].op = "contract_update"
    /\ req[r].pc = "savetx"
    /\ SaveTxnThen(r, Ok(r))
    /\ UNCHANGED <<users, cards, gifts, ops, opening, maxActive, strictQuery>>

-----------------------------------------------------------------------------
(* withdrawals and deposits routes: POST / *)

\* Transaction.findOne({userId: id, status: "pending", type: "withdrawal"}):
\* the schema has user.id and no userId, so the filter path is dropped under
\* strictQuery (any account's pending withdrawal matches) and matches no
\* document otherwise
PendingWithdrawal(u) ==
    /\ strictQuery
    /\ \E i \in 1..Len(txns) :
          txns[i].type = "withdrawal" /\ txns[i].status = "pending"

\* Transaction.exists({"user.id": id, type: "deposit", status: "pending"})
PendingDeposit(u) ==
    \E i \in 1..Len(txns) :
        txns[i].type = "deposit" /\ txns[i].status = "pending" /\ txns[i].uid = u

\* POST /withdrawals: validate(withdrawalSchema) and await User.findById(id)
WithdrawalCreate(r, u, amount) ==
    /\ FreeSlot(r)
    /\ ops' = ops + 1
    /\ LET user == users[u]
           slot == [Idle EXCEPT !.op = "withdrawal_create", !.u = u,
                                !.amt = amount, !.orig = user, !.doc = user]
       IN  req' = [req EXCEPT ![r] =
               IF amount < REQUEST_MIN
               THEN [slot EXCEPT !.pc = "done", !.res = Res("invalid")]
               ELSE [slot EXCEPT !.pc = "pending"]]
    /\ UNCHANGED <<users, txns, cards, gifts, faults, opening, maxActive, strictQuery>>

\* POST /withdrawals: the pending-withdrawal lookup, then the balance check
WithdrawalCreatePending(r) ==
    /\ req[r].op = "withdrawal_create"
    /\ req[r].pc = "pending"
    /\ req' = [req EXCEPT ![r] =
            IF PendingWithdrawal(req[r].u)
            THEN Fail(r, "pending_exists")
            ELSE IF req[r].amt > req[r].doc.deposit + req[r].doc.interest
            THEN Fail(r, "insufficient")
            ELSE [req[r] EXCEPT !.pc = "create"]]
    /\ UNCHANGED <<users, txns, cards, gifts, ops, faults, opening, maxActive, strictQuery>>

\* POST /withdrawals: await transaction.save() of the pending withdrawal,
\* then the mails and the response
WithdrawalCreateTxn(r) ==
    /\ req[r].op = "withdrawal_create"
    /\ req[r].pc = "create"
    /\ \E mailThrows \in BOOLEAN :
         CreateTxnThen(r, Withdrawal(req[r].u, "pending", req[r].amt, "btc", 34),
                       Respond(MailRethrown(Written(r), mailThrows)))
    /\ UNCHANGED <<users, cards, gifts, ops, opening, maxActive, strictQuery>>

\* POST /deposits: validate(depositSchema) and await User.findById(id)
DepositCreate(r, u, amount) ==
    /\ FreeSlot(r)
    /\ ops' = ops + 1
    /\ LET user == users[u]
           slot == [Idle EXCEPT !.op = "deposit_create", !.u = u,
                                !.amt = amount, !.orig = user, !.doc = user]
       IN  req' = [req EXCEPT ![r] =
               IF amount < REQUEST_MIN
               THEN [slot EXCEPT !.pc = "done", !.res = Res("invalid")]
               ELSE [slot EXCEPT !.pc = "pending"]]
    /\ UNCHANGED <<users, txns, cards, gifts, faults, opening, maxActive, strictQuery>>

\* POST /deposits: the pending-deposit lookup
DepositCreatePending(r) ==
    /\ req[r].op = "deposit_create"
    /\ req[r].pc = "pending"
    /\ req' = [req EXCEPT ![r] =
            IF PendingDeposit(req[r].u)
            THEN Fail(r, "pending_exists")
            ELSE [req[r] EXCEPT !.pc = "create"]]
    /\ UNCHANGED <<users, txns, cards, gifts, ops, faults, opening, maxActive, strictQuery>>

\* POST /deposits: await transaction.save() of the pending deposit, then the
\* mails and the response
DepositCreateTxn(r) ==
    /\ req[r].op = "deposit_create"
    /\ req[r].pc = "create"
    /\ \E mailThrows \in BOOLEAN :
         CreateTxnThen(r, Txn("deposit", req[r].u, "pending", req[r].amt),
                       Respond(MailSwallowed(Written(r), mailThrows)))
    /\ UNCHANGED <<users, cards, gifts, ops, opening, maxActive, strictQuery>>

-----------------------------------------------------------------------------
(* payoutOrchestrator.ts: processWithdrawal *)

\* what the provider may answer to testConnection, to getBalance (the request
\* throws, is refused with 403, or returns balances without or with the
\* currency) and to createPayout / createMassPayout
ConnResponses == {"connected", "not_connected", "throws"}
BalResponses == {"throws", "denied", "absent", "listed"}
AvailAmounts == {5000, 10000}
PayoutResponses == {"throws", "waiting", "Confirming", "confirmed", "finished",
                    "FINISHED", "failed", "Refunded", "sending"}

\* nowPaymentsService.getBalance(): the balances returned, [] on a 403
getBalance(currency, bal, avail) ==
    IF bal = "listed"
    THEN <<[currency |-> "xmr", available_amount |-> avail],
           [currency |-> currency, available_amount |-> avail]>>
    ELSE IF bal = "absent"
    THEN <<[currency |-> "xmr", available_amount |-> avail]>>
    ELSE <<>>

\* a check that approves whatever the provider says
canProcessPayoutOpen(currency, amount, conn, bal, avail) == TRUE

\* canProcessPayout(): false unless connected and the currency's available
\* amount covers the payout; any throw is caught and gives false
canProcessPayout(currency, amount, conn, bal, avail) ==
    IF conn # "connected" THEN FALSE
    ELSE IF bal = "throws" THEN FALSE
    ELSE LET balances == getBalance(currency, bal, avail)
             found == {i \in 1..Len(balances) :
                          balances[i].currency = currency}
         IN  IF found = {} THEN FALSE
             ELSE \E i \in found :
                     /\ \A j \in found : i <= j
                     /\ balances[i].available_amount >= amount

\* nowPaymentsService.getMinimumPayout(): the provider's min_amount, or, the
\* request failing, the default of the currency (0.0001 btc, 0.001 eth, 1 for
\* usdt and for unlisted currencies; in whole cents, below 0.001 is below 1)
getMinimumPayout(currency, minResp) ==
    IF minResp = "ok" THEN PROVIDER_MIN
    ELSE IF currency \in {"btc", "eth"} THEN 1
    ELSE 100

\* the errors validatePayout() collects
PayoutErrors(amount, currency, addr, minResp, addrResp) ==
    (IF amount <= 0 THEN {"positive"} ELSE {})
    \cup (IF addr < 10 THEN {"wallet"} ELSE {})
    \cup (IF currency = "" THEN {"currency"} ELSE {})
    \cup (IF currency # "" /\ minResp # "throws"
             /\ amount < getMinimumPayout(currency, minResp)
          THEN {"minimum"} ELSE {})
    \cup (IF addrResp = "invalid" THEN {"address"} ELSE {})

\* the warnings: a call of the provider service that threw
PayoutWarnings(currency, minResp, addrResp) ==
    (IF currency # "" /\ minResp = "throws" THEN {"minimum"} ELSE {})
    \cup (IF addrResp = "throws" THEN {"address"} ELSE {})

\* a validation that blocks on a minimum it could not look up
validatePayoutStrict(amount, currency, addr, minResp, addrResp) ==
    LET errors == PayoutErrors(amount, currency, addr, minResp, addrResp)
    IN  [valid |-> errors = {} /\ minResp # "throws", errors |-> errors,
         warnings |-> PayoutWarnings(currency, minResp, addrResp),
         minResp |-> minResp, addrResp |-> addrResp]

\* validatePayout(): valid iff no error was found; the record also keeps
\* what the two provider calls answered
validatePayout(amount, currency, addr, minResp, addrResp) ==
    LET errors == PayoutErrors(amount, currency, addr, minResp, addrResp)
    IN  [valid |-> errors = {}, errors |-> errors,
         warnings |-> PayoutWarnings(currency, minResp, addrResp),
         minResp |-> minResp, addrResp |-> addrResp]

\* String.prototype.toLowerCase() on the statuses the provider may send
toLowerCase(status) ==
    CASE status = "Confirming" -> "confirming"
      [] status = "FINISHED" -> "finished"
      [] status = "Refunded" -> "refunded"
      [] OTHER -> status

\* a mapping that compares the provider's status as it came
mapNOWPaymentsStatusExact(status) ==
    IF status \in {"waiting", "confirming"} THEN "processing"
    ELSE IF status \in {"confirmed", "finished"} THEN "completed"
    ELSE IF status \in {"failed", "refunded"} THEN "failed"
    ELSE "pending"

\* switch (status.toLowerCase())
mapNOWPaymentsStatus(status) ==
    LET s == toLowerCase(status)
    IN  IF s \in {"waiting", "confirming"} THEN "processing"
        ELSE IF s \in {"confirmed", "finished"} THEN "completed"
        ELSE IF s \in {"failed", "refunded"} THEN "failed"
        ELSE "pending"

\* the orchestrator's result {success, status}
PayoutRes(success, status) ==
    [NoRes EXCEPT !.code = IF success THEN "ok" ELSE "failed", !.status = status]

\* a record that keeps what it was when the payout run broke off
PayoutFailedKept(t, why) == t

\* status = "failed" with payoutError set
PayoutFailed(t, why) == [t EXCEPT !.status = "failed", !.payoutError = why]

\* a routing that sends every withdrawal to the provider
PayoutRouteAuto(t, can) == [t EXCEPT !.status = "processing"]

\* after canProcessPayout: requires_manual with its reason, or processing
PayoutRoute(t, can) ==
    IF can THEN [t EXCEPT !.status = "processing"]
    ELSE [t EXCEPT !.status = "requires_manual",
                   !.payoutError = "provider_unavailable"]

\* processWithdrawal up to validatePayout: await Transaction.findById, the
\* pending-withdrawal guard and the wallet data
ProcessWithdrawal(r, id) ==
    /\ FreeSlot(r)
    /\ ops' = ops + 1
    /\ LET transaction == FindTxn(id)
           slot == [Idle EXCEPT !.op = "payout", !.id = id,
                                !.u = transaction.uid, !.amt = transaction.amount,
                                !.torig = transaction, !.tdoc = transaction]
       IN  \E throw \in Throws :
            /\ faults' = faults + (IF throw THEN 1 ELSE 0)
            /\ req' = [req EXCEPT ![r] =
                 IF throw THEN [slot EXCEPT !.pc = "catch", !.prov.dbErr = TRUE]
                 ELSE IF transaction = NoTxn
                 THEN [slot EXCEPT !.pc = "done", !.res = PayoutRes(FALSE, "failed")]
                 ELSE IF transaction.type # "withdrawal"
                         \/ transaction.status # "pending"
                 THEN [slot EXCEPT !.pc = "done",
                                   !.res = PayoutRes(FALSE, transaction.status)]
                 ELSE IF transaction.coin = "" \/ transaction.addr = 0
                 THEN [slot EXCEPT !.pc = "savefailed",
                          !.tdoc = PayoutFailed(transaction, "missing_wallet")]
                 ELSE [slot EXCEPT !.pc = "validate"]]
    /\ UNCHANGED <<users, txns, cards, gifts, opening, maxActive, strictQuery>>

\* await this.validatePayout(amount, currency, walletAddress)
PayoutValidate(r) ==
    /\ req[r].op = "payout"
    /\ req[r].pc = "validate"
    /\ \E minResp \in {"ok", "default", "throws"}, addrResp \in {"valid", "invalid"} :
        LET t == req[r].tdoc
            validation == validatePayout(t.amount, t.coin, t.addr, minResp, addrResp)
        IN  /\ t.addr < 10 => addrResp = "invalid"
            /\ req' = [req EXCEPT ![r] =
                IF ~validation.valid
                THEN [req[r] EXCEPT !.pc = "savefailed", !.val = validation,
                                    !.tdoc = PayoutFailed(t, "validation")]
                ELSE [req[r] EXCEPT !.pc = "check", !.val = validation]]
    /\ UNCHANGED <<users, txns, cards, gifts, ops, faults, opening, maxActive, strictQuery>>

\* await this.canProcessPayout(currency, amount) and the routing it decides
PayoutCheck(r) ==
    /\ req[r].op = "payout"
    /\ req[r].pc = "check"
    /\ \E conn \in ConnResponses, bal \in BalResponses, avail \in AvailAmounts :
        LET t == req[r].tdoc
            canProcess == canProcessPayout(t.coin, t.amount, conn, bal, avail)
            routed == PayoutRoute(t, canProcess)
        IN  /\ bal \in {"throws", "denied"} => avail = 5000
            /\ req' = [req EXCEPT ![r] =
                 [req[r] EXCEPT
                    !.pc = IF routed.status = "processing"
                           THEN "saveprocessing" ELSE "savemanual",
                    !.tdoc = routed,
                    !.prov = [@ EXCEPT !.conn = conn, !.bal = bal,
                                       !.avail = avail, !.can = canProcess]]]
    /\ UNCHANGED <<users, txns, cards, gifts, ops, faults, opening, maxActive, strictQuery>>

\* await transaction.save() inside processWithdrawal's try: a rejection goes
\* to the catch block
PayoutSaveThen(r, after) ==
    \E throw \in Throws :
        /\ faults' = faults + (IF throw THEN 1 ELSE 0)
        /\ IF throw
           THEN /\ req' = [req EXCEPT ![r].pc = "catch", ![r].prov.dbErr = TRUE]
                /\ UNCHANGED txns
           ELSE /\ txns' = [txns EXCEPT ![req[r].id] =
                               Merge(@, req[r].torig, req[r].tdoc)]
                /\ req' = [req EXCEPT ![r] = after]

\* the save of a failed record (wallet data missing, validation failed)
PayoutSaveFailed(r) ==
    /\ req[r].op = "payout"
    /\ req[r].pc = "savefailed"
    /\ PayoutSaveThen(r, [req[r] EXCEPT !.pc = "done", !.wrote = TRUE,
                                        !.res = PayoutRes(FALSE, "failed")])
    /\ UNCHANGED <<users, cards, gifts, ops, opening, maxActive, strictQuery>>

\* the save of a record marked for manual processing
PayoutSaveManual(r) ==
    /\ req[r].op = "payout"
    /\ req[r].pc = "savemanual"
    /\ PayoutSaveThen(r, [req[r] EXCEPT !.pc = "done", !.wrote = TRUE,
                                        !.res = PayoutRes(TRUE, "requires_manual")])
    /\ UNCHANGED <<users, cards, gifts, ops, opening, maxActive, strictQuery>>

\* the save of status processing before the provider is called; the saved
\* document is what later changes are compared with
PayoutSaveProcessing(r) ==
    /\ req[r].op = "payout"
    /\ req[r].pc = "saveprocessing"
    /\ PayoutSaveThen(r, [Goto(r, "provider") EXCEPT !.torig = req[r].tdoc])
    /\ UNCHANGED <<users, cards, gifts, ops, opening, maxActive, strictQuery>>

\* await this.nowPayments.createPayout(...) and the mapping of its status
PayoutProvider(r) ==
    /\ req[r].op = "payout"
    /\ req[r].pc = "provider"
    /\ \E out \in PayoutResponses :
        req' = [req EXCEPT ![r] =
            IF out = "throws"
            THEN [req[r] EXCEPT !.pc = "catch", !.prov.calls = @ + 1,
                                !.prov.threw = TRUE, !.prov.out = out]
            ELSE [req[r] EXCEPT !.pc = "saveresult", !.prov.calls = @ + 1,
                                !.prov.out = out,
                                !.tdoc.status = mapNOWPaymentsStatus(out),
                                !.tdoc.processedAt =
                                    @ \/ mapNOWPaymentsStatus(out)
                                            \in {"completed", "failed"}]]
    /\ UNCHANGED <<users, txns, cards, gifts, ops, faults, opening, maxActive, strictQuery>>

\* the save of the provider's result, then the successful return
PayoutSaveResult(r) ==
    /\ req[r].op = "payout"
    /\ req[r].pc = "saveresult"
    /\ PayoutSaveThen(r, [req[r] EXCEPT !.pc = "done", !.wrote = TRUE,
                             !.res = PayoutRes(TRUE, req[r].tdoc.status)])
    /\ UNCHANGED <<users, cards, gifts, ops, opening, maxActive, strictQuery>>

\* the catch block: await Transaction.findByIdAndUpdate(id, {status: "failed",
\* payoutError}), whose own failure is only logged
PayoutCatch(r) ==
    /\ req[r].op = "payout"
    /\ req[r].pc = "catch"
    /\ \E throw \in Throws :
        /\ faults' = faults + (IF throw THEN 1 ELSE 0)
        /\ txns' = IF throw \/ req[r].id \notin 1..Len(txns) THEN txns
                   ELSE [txns EXCEPT ![req[r].id] =
                            PayoutFailed(@, "processing_error")]
        /\ req' = [req EXCEPT ![r].pc = "done",
                              ![r].prov.dbErr = (@ \/ throw),
                              ![r].res = PayoutRes(FALSE, "failed")]
    /\ UNCHANGED <<users, cards, gifts, ops, opening, maxActive, strictQuery>>

-----------------------------------------------------------------------------
(* payoutOrchestrator.ts: processMassWithdrawals *)

\* Transaction.find({_id: {$in: ids}, type: "withdrawal", status: "pending"}),
\* in the order of the collection
RECURSIVE FindPendingWithdrawals(_, _)
FindPendingWithdrawals(ids, i) ==
    IF i > Len(txns) THEN <<>>
    ELSE (IF /\ \E k \in 1..Len(ids) : ids[k] = i
             /\ txns[i].type = "withdrawal"
             /\ txns[i].status = "pending"
          THEN <<[id |-> i, orig |-> txns[i], doc |-> txns[i]]>> ELSE <<>>)
         \o FindPendingWithdrawals(ids, i + 1)

\* the reduce into groups by walletData.coinName, groups in the order their
\* currency first occurs
RECURSIVE GroupByCurrency(_)
GroupByCurrency(found) ==
    IF found = <<>> THEN <<>>
    ELSE LET coin == Head(found).orig.coin
         IN  <<SelectSeq(found, LAMBDA t : t.orig.coin = coin)>>
             \o GroupByCurrency(SelectSeq(found, LAMBDA t : t.orig.coin # coin))

\* an inner catch that marks the first transaction of the group only
MassFailGroupFirst(group) ==
    <<[group[1] EXCEPT !.doc = PayoutFailed(@, "mass_error")]>>

\* the inner catch: every transaction of the group is to be saved as failed
MassFailGroup(group) ==
    [k \in 1..Len(group) |->
        [group[k] EXCEPT !.doc = PayoutFailed(@, "mass_error")]]


\* the group's transactions updated from the provider's withdrawals, in order
MassApplyResults(group, results) ==
    [k \in 1..Len(group) |->
        [group[k] EXCEPT
            !.doc.status = mapNOWPaymentsStatus(results[k]),
            !.doc.processedAt =
                @ \/ mapNOWPaymentsStatus(results[k]) \in {"completed", "failed"}]]

\* a count check that lets every list through
MassCountMismatchNever(found, ids) == FALSE

\* transactions.length !== transactionIds.length
MassCountMismatch(found, ids) == Len(found) # Len(ids)

\* processMassWithdrawals up to the first group: the empty check, the find
\* and the count check; todo keeps the transactionIds of a call that
\* returned here
ProcessMass(r, ids) ==
    /\ FreeSlot(r)
    /\ ops' = ops + 1
    /\ LET found == FindPendingWithdrawals(ids, 1)
           slot == [Idle EXCEPT !.op = "mass_payout", !.arg = "none",
                                !.batch = GroupByCurrency(found)]
       IN  \E throw \in Throws :
            /\ faults' = faults + (IF throw THEN 1 ELSE 0)
            /\ req' = [req EXCEPT ![r] =
                 IF ids = <<>>
                 THEN [Idle EXCEPT !.op = "mass_payout", !.pc = "done",
                                   !.res = PayoutRes(FALSE, "failed")]
                 ELSE IF throw
                 THEN [Idle EXCEPT !.op = "mass_payout", !.pc = "done",
                                   !.prov.dbErr = TRUE, !.todo = ids,
                                   !.res = PayoutRes(FALSE, "failed")]
                 ELSE IF MassCountMismatch(found, ids)
                 THEN [Idle EXCEPT !.op = "mass_payout", !.pc = "done",
                                   !.todo = ids,
                                   !.res = PayoutRes(FALSE, "failed")]
                 ELSE [slot EXCEPT !.pc = "group"]]
    /\ UNCHANGED <<users, txns, cards, gifts, opening, maxActive, strictQuery>>

\* the orchestrator's result once every group has been gone through
MassResult(slot) ==
    [slot EXCEPT !.pc = "done",
                 !.res = PayoutRes(slot.prov.totalProcessed > 0,
                                   IF slot.prov.totalFailed = 0
                                   THEN "completed" ELSE "partial")]

\* await this.nowPayments.createMassPayout(massPayoutData) for the next
\* currency group: it throws, or returns the provider's answer as it came,
\* with n withdrawals for the transactions submitted.  With fewer than
\* submitted, massResult.withdrawals[i] is undefined from i = n on and
\* withdrawal.id throws into the inner catch.
MassCall(r) ==
    /\ req[r].op = "mass_payout"
    /\ req[r].pc = "group"
    /\ LET group == Head(req[r].batch)
           coin == group[1].orig.coin
       IN  \E throws \in BOOLEAN, n \in 0..Len(group),
              results \in [1..Len(group) -> {"finished", "failed"}] :
            /\ throws => n = Len(group)
            /\ \A k \in 1..Len(group) :
                  (throws \/ k > n) => results[k] = "failed"
            /\ req' = [req EXCEPT ![r] =
                 [req[r] EXCEPT
                    !.pc = "save",
                    !.arg = IF throws \/ n = 0 THEN "catch" ELSE "try",
                    !.prov.calls = @ + 1,
                    !.prov.out = IF n < Len(group) THEN "short" ELSE "full",
                    !.heard = @ \cup
                        {[id |-> group[k].id,
                          out |-> IF throws THEN "throws"
                                  ELSE IF k > n THEN "missing"
                                  ELSE results[k]] :
                            k \in 1..Len(group)},
                    !.todo = IF throws \/ n = 0 THEN MassFailGroup(group)
                             ELSE SubSeq(MassApplyResults(group, results), 1, n)]]
    /\ UNCHANGED <<users, txns, cards, gifts, ops, faults, opening, maxActive, strictQuery>>

\* await tx.save() of the next transaction of the group.  A rejection in the
\* try loop enters the inner catch, which saves the whole group as failed; a
\* rejection in the inner catch leaves for the outer catch and ends the call.
MassSave(r) ==
    /\ req[r].op = "mass_payout"
    /\ req[r].pc = "save"
    /\ req[r].todo # <<>>
    /\ LET tx == Head(req[r].todo)
           rest == Tail(req[r].todo)
           counted == [req[r] EXCEPT
                         !.todo = rest,
                         !.wrote = TRUE,
                         !.prov.totalProcessed =
                             @ + (IF tx.doc.status \in {"completed", "processing"}
                                  THEN 1 ELSE 0),
                         !.prov.totalFailed =
                             @ + (IF tx.doc.status \in {"completed", "processing"}
                                  THEN 0 ELSE 1)]
           next == IF rest # <<>> THEN counted
                   ELSE IF req[r].arg = "try" /\ req[r].prov.out = "short"
                   THEN [counted EXCEPT
                           !.arg = "catch",
                           !.todo = MassFailGroup(Head(req[r].batch))]
                   ELSE IF Tail(req[r].batch) = <<>>
                   THEN MassResult([counted EXCEPT !.batch = <<>>])
                   ELSE [counted EXCEPT !.batch = Tail(@), !.pc = "group"]
       IN  \E throw \in Throws :
            /\ faults' = faults + (IF throw THEN 1 ELSE 0)
            /\ IF ~throw
               THEN /\ txns' = [txns EXCEPT ![tx.id] = Merge(@, tx.orig, tx.doc)]
                    /\ req' = [req EXCEPT ![r] = next]
               ELSE /\ UNCHANGED txns
                    /\ req' = [req EXCEPT ![r] =
                         IF req[r].arg = "try"
                         THEN [req[r] EXCEPT
                                 !.arg = "catch", !.prov.dbErr = TRUE,
                                 !.todo = MassFailGroup(Head(req[r].batch))]
                         ELSE [req[r] EXCEPT
                                 !.pc = "done", !.prov.dbErr = TRUE,
                                 !.res = PayoutRes(FALSE, "failed")]]
    /\ UNCHANGED <<users, cards, gifts, ops, opening, maxActive, strictQuery>>

-----------------------------------------------------------------------------
(* banking.ts: POST /transfers/internal *)

\* the sender's deposit first, then interest
DeductTransfer(user, amt) ==
    IF user.deposit >= amt
    THEN [user EXCEPT !.deposit = @ - amt]
    ELSE [user EXCEPT !.deposit = 0, !.interest = @ - (amt - user.deposit)]

\* the four operations handed to the final Promise.all
TransferWrites == {"fromUser", "toUser", "debitTxn", "creditTxn"}

\* parseAmount, the caller check, await Promise.all([findById(fromUserId),
\* findById(toUserId)]) giving two documents (two also when the ids are the
\* same), the balance check, the deduction and the credit.  The recipient's
\* loaded and changed documents are kept in batch, the recipient in arg.
InternalTransfer(r, caller, fromUserId, toUserId, amount) ==
    /\ FreeSlot(r)
    /\ ops' = ops + 1
    /\ LET fromUser == users[fromUserId]
           toUser == users[toUserId]
           slot == [Idle EXCEPT !.op = "internal_transfer", !.u = fromUserId,
                                !.arg = toUserId, !.who = caller,
                                !.amt = amount, !.orig = fromUser,
                                !.doc = fromUser]
       IN  req' = [req EXCEPT ![r] =
               IF ~parseAmountOk(amount)
               THEN [slot EXCEPT !.pc = "done", !.res = Res("invalid")]
               ELSE IF ~IsAdminAccount(caller) /\ caller # fromUserId
               THEN [slot EXCEPT !.pc = "done", !.res = Res("denied")]
               ELSE IF fromUser.deleted \/ toUser.deleted
               THEN [slot EXCEPT !.pc = "done", !.res = Res("not_found")]
               ELSE IF fromUser.deposit + fromUser.interest < amount
               THEN [slot EXCEPT !.pc = "done", !.res = Res("insufficient")]
               ELSE [slot EXCEPT !.pc = "save",
                                 !.doc = DeductTransfer(fromUser, amount),
                                 !.batch = << toUser,
                                     [toUser EXCEPT !.deposit = @ + amount] >>,
                                 !.res = Res("ok")]]
    /\ UNCHANGED <<users, txns, cards, gifts, faults, opening, maxActive, strictQuery>>

\* the slot once the write w of the Promise.all has settled: the first
\* rejection decides the answer, the other writes go on, and the slot is
\* done when all four have settled
TransferSettled(r, w, threw) ==
    LET slot == [req[r] EXCEPT !.heard = @ \cup {w},
                               !.wrote = @ \/ ~threw,
                               !.res = IF threw THEN Res("error") ELSE @]
    IN  IF slot.heard = TransferWrites THEN [slot EXCEPT !.pc = "done"]
        ELSE slot

\* await Promise.all([fromUser.save(), toUser.save(), Transaction.create(..),
\* Transaction.create(..)]): one of the writes that have not settled reaches
\* the store, in whatever order the driver delivers them
InternalTransferWrite(r, w) ==
    /\ req[r].op = "internal_transfer"
    /\ req[r].pc = "save"
    /\ w \in TransferWrites \ req[r].heard
    /\ \E throw \in Throws :
        LET doc == IF w = "fromUser" THEN req[r].doc ELSE req[r].batch[2]
            threw == throw \/ (w \in {"fromUser", "toUser"} /\ ~UserValid(doc))
        IN  /\ faults' = faults + (IF throw THEN 1 ELSE 0)
            /\ req' = [req EXCEPT ![r] = TransferSettled(r, w, threw)]
            /\ users' =
                  IF threw THEN users
                  ELSE IF w = "fromUser"
                  THEN [users EXCEPT ![req[r].u] =
                           Merge(@, req[r].orig, req[r].doc)]
                  ELSE IF w = "toUser"
                  THEN [users EXCEPT ![req[r].arg] =
                           Merge(@, req[r].batch[1], req[r].batch[2])]
                  ELSE users
            /\ txns' =
                  IF threw THEN txns
                  ELSE IF w = "debitTxn"
                  THEN Append(txns, Txn("internal_transfer", req[r].u,
                                        "completed", 0 - req[r].amt))
                  ELSE IF w = "creditTxn"
                  THEN Append(txns, Txn("internal_transfer", req[r].arg,
                                        "completed", req[r].amt))
                  ELSE txns
    /\ UNCHANGED <<cards, gifts, ops, opening, maxActive, strictQuery>>

-----------------------------------------------------------------------------
(* users routes: DELETE /:identifier *)

\* Transaction.deleteMany({userId: user._id}): the schema has user.id and no
\* userId, so under strictQuery the filter is emptied and every record
\* matches, and otherwise no record does.  A removed record leaves its id.
deleteManyByUserId(u) ==
    IF strictQuery THEN [i \in 1..Len(txns) |-> NoTxn] ELSE txns

\* DELETE /:identifier: await User.findById(identifier), 404 if there is
\* none, 403 and a USER_DELETE_BLOCKED event for an administrator account
UserDelete(r, u) ==
    /\ FreeSlot(r)
    /\ ops' = ops + 1
    /\ LET user == users[u]
           slot == [Idle EXCEPT !.op = "user_delete", !.u = u, !.orig = user,
                                !.doc = user, !.batch = txns]
       IN  req' = [req EXCEPT ![r] =
               IF user.deleted
               THEN [slot EXCEPT !.pc = "done", !.res = Res("not_found")]
               ELSE IF IsAdminAccount(u)
               THEN [slot EXCEPT !.pc = "done", !.res = Res("restricted"),
                                 !.audit = TRUE]
               ELSE [slot EXCEPT !.pc = "transactions"]]
    /\ UNCHANGED <<users, txns, cards, gifts, faults, opening, maxActive, strictQuery>>

\* await Transaction.deleteMany({userId: user._id}), then the OTPs and the
\* profile image
UserDeleteTxns(r) ==
    /\ req[r].op = "user_delete"
    /\ req[r].pc = "transactions"
    /\ \E throw \in Throws :
        /\ faults' = faults + (IF throw THEN 1 ELSE 0)
        /\ IF throw
           THEN /\ req' = [req EXCEPT ![r] = Fail(r, "error")]
                /\ UNCHANGED txns
           ELSE /\ txns' = deleteManyByUserId(req[r].u)
                /\ req' = [req EXCEPT ![r] = Goto(r, "user")]
    /\ UNCHANGED <<users, cards, gifts, ops, opening, maxActive, strictQuery>>

\* await User.findByIdAndDelete(user._id), then the USER_DELETED event and
\* the response
UserDeleteUser(r) ==
    /\ req[r].op = "user_delete"
    /\ req[r].pc = "user"
    /\ \E throw \in Throws :
        /\ faults' = faults + (IF throw THEN 1 ELSE 0)
        /\ IF throw
           THEN /\ req' = [req EXCEPT ![r] = Fail(r, "error")]
                /\ UNCHANGED users
           ELSE /\ users' = [users EXCEPT ![req[r].u].deleted = TRUE]
                /\ req' = [req EXCEPT ![r] = Respond(Audited(Written(r)))]
    /\ UNCHANGED <<txns, cards, gifts, ops, opening, maxActive, strictQuery>>

-----------------------------------------------------------------------------
(* Specifications *)

Quiet == \A r \in Reqs : req[r].op = "idle"

InitCommon ==
    /\ opening = users
    /\ req = [r \in Reqs |-> Idle]
    /\ ops = 0
    /\ faults = 0
    /\ strictQuery = FALSE

\* the ledger routes, one request at a time: u1 holds funds and an active card
Init ==
    /\ users \in {[u \in Users |-> IF u = "u1" THEN a ELSE NoAcct] :
                    a \in {Acct(4000, 2000, 0, 0), Acct(4000, 2000, 1000, 500)}}
    /\ txns = <<>>
    /\ cards = <<Card("u1", "active", 1500)>>
    /\ gifts = [c \in Codes |-> IF c = "GC1" THEN Gift("active", 2500) ELSE NoGift]
    /\ maxActive = 1
    /\ InitCommon

Next ==
    \/ \E r \in Reqs : Finish(r)
    \/ \E r \in Reqs : ExternalTransfer(r, "u1", 4000)
    \/ \E r \in Reqs, a \in {-1000, 5000, 6500} : CryptoWithdraw(r, "u1", a)
    \/ \E r \in Reqs, f \in {-6000, 0} : GiftcardPurchase(r, "u1", 1000, f)
    \/ \E r \in Reqs, f \in {0, 100} : VirtualCardPurchase(r, "u1", 1000, f)
    \/ \E r \in Reqs : FlightBook(r, "u1", 5000)
    \/ \E r \in Reqs : DebitSave(r)
    \/ \E r \in Reqs : DebitCreate(r)
    \/ \E r \in Reqs, a \in {-1000, 0, 2000} : CardIssue(r, "u1", a)
    \/ \E r \in Reqs : CardIssueSave(r)
    \/ \E r \in Reqs : CardIssueCreate(r)
    \/ \E r \in Reqs : CardIssueTxn(r)
    \/ \E r \in Reqs, a \in {0, 2500, 6500} : CardFund(r, "u1", 1, a)
    \/ \E r \in Reqs : CardFundSave(r)
    \/ \E r \in Reqs : CardFundTxn(r)
    \/ \E r \in Reqs : CardFreeze(r, "u1", 1)
    \/ \E r \in Reqs : CardCancel(r, "u1", 1)
    \/ \E r \in Reqs : CardCancelSave(r)
    \/ \E r \in Reqs : CardCancelTxn(r)
    \/ \E r \in Reqs : CardSave(r)
    \/ \E r \in Reqs, a \in {500, 2500} : GiftIssue(r, "u1", a)
    \/ \E r \in Reqs : GiftIssueSave(r)
    \/ \E r \in Reqs : GiftIssueCreate(r)
    \/ \E r \in Reqs : GiftIssueTxn(r)
    \/ \E r \in Reqs, c \in Codes : GiftRedeem(r, "u1", c)
    \/ \E r \in Reqs : GiftRedeemUser(r)
    \/ \E r \in Reqs : GiftRedeemSave(r)
    \/ \E r \in Reqs : GiftRedeemMark(r)
    \/ \E r \in Reqs : GiftRedeemTxn(r)

Spec == Init /\ [][Next]_vars

\* two debit requests of the same account at once
InitRace ==
    /\ users = [u \in Users |-> IF u = "u1" THEN Acct(4000, 2000, 0, 0) ELSE NoAcct]
    /\ txns = <<>>
    /\ cards = <<>>
    /\ gifts = [c \in Codes |-> NoGift]
    /\ maxActive = 2
    /\ InitCommon

NextRace ==
    \/ \E r \in Reqs : Finish(r)
    \/ \E r \in Reqs, a \in {1000, 5000} : CryptoWithdraw(r, "u1", a)
    \/ \E r \in Reqs : ExternalTransfer(r, "u1", 4000)
    \/ \E r \in Reqs : DebitSave(r)
    \/ \E r \in Reqs : DebitCreate(r)

SpecRace == InitRace /\ [][NextRace]_vars

\* the administrative decisions on a pending withdrawal of u1, and on a
\* pending deposit and a running contract that are u1's or the administrator
\* account's
InitAdminStore ==
    /\ users \in {[u \in Users |-> IF u = "u1" THEN a ELSE NoAcct] :
                    a \in {Acct(4000, 2000, 0, 0), Acct(3000, 1000, 500, 0)}}
    /\ txns \in {<< Txn("withdrawal", "u1", "pending", 5000),
                     Txn("deposit", o, "pending", 2000),
                     Contract(o, "active", 1000, 100) >> : o \in Users}
    /\ cards = <<>>
    /\ gifts = [c \in Codes |-> NoGift]
    /\ InitCommon

InitAdmin == InitAdminStore /\ maxActive = 1

NextAdmin ==
    \/ \E r \in Reqs : Finish(r)
    \/ \E r \in Reqs, id \in 1..3, st \in {"approved", "rejected"} :
            DepositDecision(r, id, st)
    \/ \E r \in Reqs : DepositUser(r)
    \/ \E r \in Reqs : DepositSaveTxn(r)
    \/ \E r \in Reqs : DepositSaveUser(r)
    \/ \E r \in Reqs : DepositReferrer(r)
    \/ \E r \in Reqs : DepositSaveReferrer(r)
    \/ \E r \in Reqs, id \in 1..3, st \in {"approved", "rejected", "processing"} :
            WithdrawalUpdate(r, id, st)
    \/ \E r \in Reqs : WithdrawalUser(r)
    \/ \E r \in Reqs : WithdrawalSaveUser(r)
    \/ \E r \in Reqs : WithdrawalSaveTxn(r)
    \/ \E r \in Reqs, id \in 1..3, st \in {"rejected", "completed", "active"} :
            ContractUpdate(r, id, st)
    \/ \E r \in Reqs : ContractUser(r)
    \/ \E r \in Reqs : ContractSaveUser(r)
    \/ \E r \in Reqs : ContractSaveTxn(r)
    \/ \E r \in Reqs, id \in 1..3 : TxnApprove(r, id)

SpecAdmin == InitAdmin /\ [][NextAdmin]_vars

\* contracts from their creation to the decision on them
InitContract ==
    /\ users = [u \in Users |-> IF u = "u1" THEN Acct(4000, 2000, 0, 0) ELSE NoAcct]
    /\ txns = <<>>
    /\ cards = <<>>
    /\ gifts = [c \in Codes |-> NoGift]
    /\ maxActive = 1
    /\ InitCommon

NextContract ==
    \/ \E r \in Reqs : Finish(r)
    \/ \E r \in Reqs, who \in {"u1", "anonymous"}, a \in {500, 1000, 3000, 5000} :
            ContractCreate(r, who, "u1", a)
    \/ \E r \in Reqs : ContractCreateSave(r)
    \/ \E r \in Reqs : ContractCreateTxn(r)
    \/ \E r \in Reqs, id \in 1..2, st \in {"rejected", "completed", "active"} :
            ContractUpdate(r, id, st)
    \/ \E r \in Reqs : ContractUser(r)
    \/ \E r \in Reqs : ContractSaveUser(r)
    \/ \E r \in Reqs : ContractSaveTxn(r)

SpecContract == InitContract /\ [][NextContract]_vars

\* withdrawal and deposit requests of one account, two at once, under either
\* build of the query layer
InitCreate ==
    /\ users = [u \in Users |-> IF u = "u1" THEN Acct(4000, 2000, 0, 0) ELSE NoAcct]
    /\ txns = <<>>
    /\ cards = <<>>
    /\ gifts = [c \in Codes |-> NoGift]
    /\ maxActive = 2
    /\ opening = users
    /\ req = [r \in Reqs |-> Idle]
    /\ ops = 0
    /\ faults = 0
    /\ strictQuery \in BOOLEAN

NextCreate ==
    \/ \E r \in Reqs : Finish(r)
    \/ \E r \in Reqs, a \in {50, 3000, 7000} : WithdrawalCreate(r, "u1", a)
    \/ \E r \in Reqs : WithdrawalCreatePending(r)
    \/ \E r \in Reqs : WithdrawalCreateTxn(r)
    \/ \E r \in Reqs, a \in {50, 2000} : DepositCreate(r, "u1", a)
    \/ \E r \in Reqs : DepositCreatePending(r)
    \/ \E r \in Reqs : DepositCreateTxn(r)

SpecCreate == InitCreate /\ [][NextCreate]_vars

\* the payout orchestrator on stored withdrawals, one run at a time
InitPayout ==
    /\ users = [u \in Users |-> IF u = "u1" THEN Acct(4000, 2000, 0, 0) ELSE NoAcct]
    /\ txns \in {<< Withdrawal("u1", "pending", 10000, "btc", 34),
                    Withdrawal("u1", "pending", 5000, "usdt", 34),
                    w,
                    Txn("deposit", "u1", "pending", 2000) >> :
                  w \in {Withdrawal("u1", "pending", 1000, "eth", 34),
                         Withdrawal("u1", "pending", -500, "eth", 34),
                         Withdrawal("u1", "pending", 5000, "eth", 5),
                         Withdrawal("u1", "pending", 5000, "", 0)}}
    /\ cards = <<>>
    /\ gifts = [c \in Codes |-> NoGift]
    /\ maxActive = 1
    /\ InitCommon

NextPayout ==
    \/ \E r \in Reqs : Finish(r)
    \/ \E r \in Reqs, id \in 1..5 : ProcessWithdrawal(r, id)
    \/ \E r \in Reqs : PayoutValidate(r)
    \/ \E r \in Reqs : PayoutCheck(r)
    \/ \E r \in Reqs : PayoutSaveFailed(r)
    \/ \E r \in Reqs : PayoutSaveManual(r)
    \/ \E r \in Reqs : PayoutSaveProcessing(r)
    \/ \E r \in Reqs : PayoutProvider(r)
    \/ \E r \in Reqs : PayoutSaveResult(r)
    \/ \E r \in Reqs : PayoutCatch(r)

SpecPayout == InitPayout /\ [][NextPayout]_vars

\* mass payouts over stored withdrawals in two currencies, one call at a time
InitMass ==
    /\ users = [u \in Users |-> IF u = "u1" THEN Acct(4000, 2000, 0, 0) ELSE NoAcct]
    /\ txns = << Withdrawal("u1", "pending", 10000, "usdt", 34),
                 Withdrawal("u2", "pending", 1000, "eth", 34),
                 Withdrawal("u2", "pending", 5000, "usdt", 34),
                 Txn("deposit", "u1", "pending", 2000) >>
    /\ cards = <<>>
    /\ gifts = [c \in Codes |-> NoGift]
    /\ maxActive = 1
    /\ InitCommon

\* the lists of transaction ids asked for: 4 is a deposit, 5 does not exist
MassRequests ==
    {<<>>, <<1, 2, 3>>, <<1, 3>>, <<2>>, <<2, 4>>, <<1, 1>>, <<2, 5>>}

NextMass ==
    \/ \E r \in Reqs : Finish(r)
    \/ \E r \in Reqs, ids \in MassRequests : ProcessMass(r, ids)
    \/ \E r \in Reqs : MassCall(r)
    \/ \E r \in Reqs : MassSave(r)

SpecMass == InitMass /\ [][NextMass]_vars

\* a withdrawal from its request to the decision on it, one call at a time
NextWithdrawal ==
    \/ \E r \in Reqs : Finish(r)
    \/ \E r \in Reqs, a \in {50, 3000, 7000} : WithdrawalCreate(r, "u1", a)
    \/ \E r \in Reqs : WithdrawalCreatePending(r)
    \/ \E r \in Reqs : WithdrawalCreateTxn(r)
    \/ \E r \in Reqs, id \in {1, 4}, st \in {"approved", "rejected", "processing"} :
            WithdrawalUpdate(r, id, st)
    \/ \E r \in Reqs : WithdrawalUser(r)
    \/ \E r \in Reqs : WithdrawalSaveUser(r)
    \/ \E r \in Reqs : WithdrawalSaveTxn(r)

SpecWithdrawal == InitAdmin /\ [][NextWithdrawal]_vars

\* the requests on one active card holding a balance, one at a time or two
\* in flight
InitCard ==
    /\ users = [u \in Users |-> IF u = "u1" THEN Acct(4000, 2000, 0, 0) ELSE NoAcct]
    /\ txns = <<>>
    /\ cards = <<Card("u1", "active", 1500)>>
    /\ gifts = [c \in Codes |-> NoGift]
    /\ maxActive \in {1, 2}
    /\ InitCommon

NextCard ==
    \/ \E r \in Reqs : Finish(r)
    \/ \E r \in Reqs, a \in {0, 2500} : CardFund(r, "u1", 1, a)
    \/ \E r \in Reqs : CardFundSave(r)
    \/ \E r \in Reqs : CardFundTxn(r)
    \/ \E r \in Reqs : CardFreeze(r, "u1", 1)
    \/ \E r \in Reqs : CardCancel(r, "u1", 1)
    \/ \E r \in Reqs : CardCancelSave(r)
    \/ \E r \in Reqs : CardCancelTxn(r)
    \/ \E r \in Reqs : CardSave(r)

SpecCard == InitCard /\ [][NextCard]_vars

\* internal transfers between two funded accounts, one request at a time or
\* two in flight
InitTransfer ==
    /\ users = [u \in Users |-> IF u = "u1" THEN Acct(2000, 2000, 0, 0)
                                 ELSE Acct(1000, 0, 0, 0)]
    /\ txns = <<>>
    /\ cards = <<>>
    /\ gifts = [c \in Codes |-> NoGift]
    /\ maxActive \in {1, 2}
    /\ opening = users
    /\ req = [r \in Reqs |-> Idle]
    /\ ops = 0
    /\ faults = 0
    /\ strictQuery = FALSE

\* caller, fromUserId, toUserId, amount: to another account, to the same
\* account, from an account of somebody else, of nothing, of too much
TransferRequests ==
    { <<"u1", "u1", "u2", 3000>>, <<"u1", "u1", "u1", 3000>>,
      <<"u1", "u2", "u1", 1000>>, <<"u2", "u1", "u2", 0>>,
      <<"u2", "u1", "u2", 5000>> }

NextTransfer ==
    \/ \E r \in Reqs : Finish(r)
    \/ \E r \in Reqs, t \in TransferRequests :
            InternalTransfer(r, t[1], t[2], t[3], t[4])
    \/ \E r \in Reqs, w \in TransferWrites : InternalTransferWrite(r, w)

SpecTransfer == InitTransfer /\ [][NextTransfer]_vars

\* deletion of accounts that own records, under either build of the query
\* layer, while deposits are requested for the administrator account
InitDelete ==
    /\ users = [u \in Users |-> IF u = "u1" THEN Acct(4000, 2000, 0, 0) ELSE NoAcct]
    /\ txns = << Txn("deposit", "u1", "approved", 4000),
                 Withdrawal("u1", "pending", 3000, "btc", 34),
                 Txn("deposit", "u2", "approved", 2000) >>
    /\ cards = <<>>
    /\ gifts = [c \in Codes |-> NoGift]
    /\ maxActive = 1
    /\ opening = users
    /\ req = [r \in Reqs |-> Idle]
    /\ ops = 0
    /\ faults = 0
    /\ strictQuery \in BOOLEAN

NextDelete ==
    \/ \E r \in Reqs : Finish(r)
    \/ \E r \in Reqs, u \in Users : UserDelete(r, u)
    \/ \E r \in Reqs : UserDeleteTxns(r)
    \/ \E r \in Reqs : UserDeleteUser(r)
    \/ \E r \in Reqs, a \in {50, 2000} : DepositCreate(r, "u2", a)
    \/ \E r \in Reqs : DepositCreatePending(r)
    \/ \E r \in Reqs : DepositCreateTxn(r)

SpecDelete == InitDelete /\ [][NextDelete]_vars

\* two administrators deciding at once on the pending withdrawal or on the
\* pending deposit
InitAdminRace == InitAdminStore /\ maxActive = 2

NextAdminRace ==
    \/ \E r \in Reqs : Finish(r)
    \/ \E r \in Reqs, st \in {"approved", "rejected"} : DepositDecision(r, 2, st)
    \/ \E r \in Reqs : DepositUser(r)
    \/ \E r \in Reqs : DepositSaveTxn(r)
    \/ \E r \in Reqs : DepositSaveUser(r)
    \/ \E r \in Reqs : DepositReferrer(r)
    \/ \E r \in Reqs : DepositSaveReferrer(r)
    \/ \E r \in Reqs, st \in {"approved", "rejected"} : WithdrawalUpdate(r, 1, st)
    \/ \E r \in Reqs : WithdrawalUser(r)
    \/ \E r \in Reqs : WithdrawalSaveUser(r)
    \/ \E r \in Reqs : WithdrawalSaveTxn(r)

SpecAdminRace == InitAdminRace /\ [][NextAdminRace]_vars

\* two redemptions of one gift card at once
InitGift ==
    /\ users = [u \in Users |-> NoAcct]
    /\ txns = <<>>
    /\ cards = <<>>
    /\ gifts = [c \in Codes |-> IF c = "GC1" THEN Gift("active", 2500) ELSE NoGift]
    /\ maxActive = 2
    /\ InitCommon

NextGift ==
    \/ \E r \in Reqs : Finish(r)
    \/ \E c \in Codes : GiftExpires(c)
    \/ \E r \in Reqs, u \in Users, c \in Codes : GiftRedeem(r, u, c)
    \/ \E r \in Reqs : GiftRedeemExpire(r)
    \/ \E r \in Reqs : GiftRedeemUser(r)
    \/ \E r \in Reqs : GiftRedeemSave(r)
    \/ \E r \in Reqs : GiftRedeemMark(r)
    \/ \E r \in Reqs : GiftRedeemTxn(r)

SpecGift == InitGift /\ [][NextGift]_vars

\* redeem attempts on one gift card, one at a time
InitGiftSeq ==
    /\ users = [u \in Users |-> NoAcct]
    /\ txns = <<>>
    /\ cards = <<>>
    /\ gifts = [c \in Codes |-> IF c = "GC1" THEN Gift("active", 2500) ELSE NoGift]
    /\ maxActive = 1
    /\ InitCommon

SpecGiftSeq == InitGiftSeq /\ [][NextGift]_vars

-----------------------------------------------------------------------------
(* Properties *)

DebitOps == DebitTypes \cup {"card_issue", "card_funding", "gift_issue"}

\* the requests that have answered with success / with the given code
Succeeded(r) == req[r].pc = "done" /\ req[r].res.code = "ok"

Answered(r, code) == req[r].pc = "done" /\ req[r].res.code = code

RECURSIVE SumAmounts(_, _)
\* the sum of the amounts of u's transaction records
SumAmounts(log, u) ==
    IF log = <<>> THEN 0
    ELSE (IF Head(log).uid = u THEN Head(log).amount ELSE 0)
         + SumAmounts(Tail(log), u)

\* C1: with requests handled one at a time, no persisted bucket (deposit,
\* interest, bonus, withdraw) of any account is ever negative, and
\* availableBalance = deposit + interest + bonus - withdraw is >= 0 right after
\* every successful debit (validateAndDeductBalance routes, card issue, card
\* fund, gift card issue).
C1_BucketsNonNegative ==
    /\ \A u \in Users :
          /\ users[u].deposit >= 0
          /\ users[u].interest >= 0
          /\ users[u].bonus >= 0
          /\ users[u].withdraw >= 0
    /\ \A r \in Reqs :
          (req[r].op \in DebitOps /\ Succeeded(r)) =>
              LET a == users[req[r].u]
              IN  a.deposit + a.interest + a.bonus - a.withdraw >= 0

\* a debit that emptied an account holding a withdraw total has succeeded, and
\* a card funding beyond deposit + interest has been turned down by the save
C1_Witness ==
    \E r \in Reqs :
        /\ req[r].op \in DebitOps
        /\ Succeeded(r)
        /\ req[r].orig.withdraw > 0
        /\ req[r].amt > 0
        /\ getAvailableBalance(users[req[r].u]) = 0

\* C2: a debit request whose total debit is not positive is rejected without
\* any state change, so no debit request ever raises a bucket of the account.
C2_DebitNeverIncreases ==
    \A r \in Reqs :
        req[r].op \in DebitOps =>
            /\ users[req[r].u].deposit <= req[r].orig.deposit
            /\ users[req[r].u].interest <= req[r].orig.interest
            /\ users[req[r].u].bonus <= req[r].orig.bonus

\* C3: two concurrent debits of one account never double-spend: once both
\* have finished (no persistence failure involved) the buckets are down by the
\* sum of the amounts of the requests that succeeded, each of which left its
\* transaction record.
C3_NoDoubleSpend ==
    (Quiet /\ faults = 0) =>
        \A u \in Users :
            Total(users[u]) = Total(opening[u]) + SumAmounts(txns, u)

\* C4: of two interleaved approvals of the same pending withdrawal or deposit
\* only one applies; the other finds the record no longer pending and reports
\* a conflict, so both never answer with success.
C4_OneApprovalApplies ==
    ~ ( /\ Succeeded("r1") /\ Succeeded("r2")
        /\ req["r1"].op = req["r2"].op
        /\ req["r1"].op \in {"deposit_decision", "withdrawal_update"}
        /\ req["r1"].id = req["r2"].id
        /\ req["r1"].arg = "approved" /\ req["r2"].arg = "approved"
        /\ req["r1"].torig.status = "pending"
        /\ req["r2"].torig.status = "pending" )

\* the record a decision request loaded was already terminal for its kind
ReadTerminal(r) ==
    \/ /\ req[r].op = "deposit_decision"
       /\ req[r].torig.type = "deposit"
       /\ req[r].torig.status \in {"approved", "rejected", "completed", "failed"}
    \/ /\ req[r].op = "contract_update"
       /\ req[r].torig.status \in {"rejected", "completed", "failed"}
    \/ /\ req[r].op = "withdrawal_update"
       /\ req[r].torig.type = "withdrawal"
       /\ req[r].torig.status \in {"rejected", "completed", "failed"}

\* C5: a further approve/reject/complete request on a record that is already
\* terminal (a deposit also once approved) fails and leaves the record and
\* every bucket unchanged.
C5_TerminalIdempotent ==
    \A r \in Reqs :
        ReadTerminal(r) => (~req[r].wrote /\ ~Succeeded(r))

\* C6: a balance change and its transaction record are applied as one unit: a
\* handler that answers with an error has left the account and the card as it
\* found them.
C6_NoPartialApplication ==
    \A r \in Reqs :
        (req[r].op \in DebitOps /\ Answered(r, "error")) =>
            /\ users[req[r].u] = req[r].orig
            /\ (req[r].op = "card_funding" => cards[req[r].id] = req[r].corig)

\* C7: a successful debit of A through validateAndDeductBalance draws deposit,
\* then interest, then bonus, each emptied before the next is touched; the
\* three together go down by exactly A and withdraw is unchanged; with
\* deposit < A <= deposit + interest, deposit becomes 0, interest goes down by
\* A - deposit and bonus is unchanged.
C7_Precedence ==
    \A r \in Reqs :
        (req[r].op \in DebitTypes \cup {"gift_issue"} /\ Succeeded(r)) =>
            LET o == req[r].orig
                n == users[req[r].u]
                A == req[r].amt
            IN  /\ Total(o) - Total(n) = A
                /\ n.withdraw = o.withdraw
                /\ n.interest # o.interest => n.deposit = 0
                /\ n.bonus # o.bonus => (n.deposit = 0 /\ n.interest = 0)
                /\ (o.deposit < A /\ A <= o.deposit + o.interest) =>
                      /\ n.deposit = 0
                      /\ n.interest = o.interest - (A - o.deposit)
                      /\ n.bonus = o.bonus

\* deposit 40.00, interest 20.00, debit 50.00: deposit 0, interest 10.00
C7_Witness ==
    \E r \in Reqs :
        /\ req[r].op \in DebitTypes
        /\ Succeeded(r)
        /\ req[r].orig.deposit = 4000 /\ req[r].orig.interest = 2000
        /\ req[r].amt = 5000
        /\ users[req[r].u].deposit = 0 /\ users[req[r].u].interest = 1000

C9_ApprovalRechecksFunds ==
    \A r \in Reqs :
        ( /\ req[r].op = "withdrawal_update"
          /\ req[r].arg = "approved"
          /\ req[r].torig.type = "withdrawal"
          /\ req[r].torig.status = "pending"
          /\ req[r].pc = "done" ) =>
            LET o == req[r].orig
                n == users[req[r].u]
                A == req[r].torig.amount
            IN  /\ A > o.deposit + o.interest =>
                      /\ req[r].res.code = "insufficient"
                      /\ txns[req[r].id].status = "pending"
                      /\ n = o
                /\ req[r].res.code = "ok" =>
                      /\ A <= o.deposit + o.interest
                      /\ txns[req[r].id].status = "approved"
                      /\ n.withdraw = o.withdraw + A
                      /\ n.deposit = (IF o.deposit >= A THEN o.deposit - A ELSE 0)
                      /\ n.interest = (IF o.deposit >= A THEN o.interest
                                       ELSE o.interest - (A - o.deposit))
                      /\ n.bonus = o.bonus

\* an approval refused for lack of funds, the withdrawal still pending
C9_Witness ==
    \E r \in Reqs :
        /\ req[r].op = "withdrawal_update"
        /\ req[r].arg = "approved"
        /\ req[r].torig.type = "withdrawal"
        /\ Answered(r, "insufficient")
        /\ txns[req[r].id].status = "pending"

\* C10: a gift card redeemed by two concurrent requests is redeemed exactly
\* once: never is there more than one gift_card_redemption record for it.
C10_RedeemedOnce ==
    Cardinality({i \in 1..Len(txns) : txns[i].type = "gift_card_redemption"}) <= 1

\* C11: a gift card is redeemable only while active and before expiresAt, and
\* over any sequence of redeem attempts, attempts that fail part-way included,
\* the total credited to accounts from one card never exceeds the card's
\* amount (here the only credits are redemptions of the one card of 25.00).
C11_CreditedAtMostOnce ==
    users["u1"].deposit + users["u2"].deposit <= 2500

\* C12: card funding and cancellation conserve value: once a funding request
\* of X has been answered (no persistence failure involved) the account total
\* plus the card balance is what it was, a successful funding having moved
\* exactly X; a successful cancellation has added the card's remaining balance
\* to deposit and set card.balance to 0.
C12_CardConservation ==
    \A r \in Reqs :
        /\ (req[r].op = "card_funding" /\ req[r].pc = "done" /\ faults = 0) =>
              /\ Total(users[req[r].u]) + cards[req[r].id].balance
                    = Total(req[r].orig) + req[r].corig.balance
              /\ Succeeded(r) =>
                    cards[req[r].id].balance = req[r].corig.balance + req[r].amt
        /\ (req[r].op = "card_refund" /\ Succeeded(r)) =>
              /\ users[req[r].u].deposit
                    = req[r].orig.deposit + req[r].corig.balance
              /\ cards[req[r].id].balance = 0

C14_ReferralBonusRecorded ==
    \A r \in Reqs :
        ( /\ req[r].op = "deposit_decision"
          /\ req[r].arg = "approved"
          /\ req[r].torig.type = "deposit"
          /\ req[r].torig.status = "pending"
          /\ ReferrerOf(req[r].torig.uid) # "none"
          /\ Succeeded(r) ) =>
            LET A == req[r].torig.amount
                referrer == ReferrerOf(req[r].torig.uid)
            IN  /\ users[req[r].torig.uid].deposit
                      = opening[req[r].torig.uid].deposit + A
                /\ users[referrer].deposit
                      = req[r].orig.deposit + (A * 5) \div 100
                /\ \E i \in 1..Len(txns) :
                      /\ txns[i].type = "referral_bonus"
                      /\ txns[i].uid = referrer
                      /\ txns[i].amount = (A * 5) \div 100

\* the status values of a TransactionRecord
StatusEnum == {"pending", "approved", "rejected", "processing", "completed",
               "failed", "requires_manual"}

\* C15: every persisted status change of a TransactionRecord follows an edge
\* of the state machine: from pending only to approved, rejected, processing
\* or requires_manual, from processing only to completed or failed; the new
\* status is a defined value, and requires_manual is never entered from
\* completed, rejected or failed.
C15_StatusEdges ==
    [][ \A i \in 1..Len(txns) :
          (txns[i].type \in {"withdrawal", "deposit"}
             /\ txns'[i].status # txns[i].status) =>
              /\ txns'[i].status \in StatusEnum
              /\ txns[i].status = "pending" =>
                    txns'[i].status \in {"approved", "rejected", "processing",
                                         "requires_manual"}
              /\ txns[i].status = "processing" =>
                    txns'[i].status \in {"completed", "failed"}
              /\ txns'[i].status = "requires_manual" =>
                    txns[i].status \notin {"completed", "rejected", "failed"}
      ]_vars

\* C17: canProcessPayout fails closed: it is true only if the connectivity
\* test reports connected and the provider lists the currency with an
\* available amount >= the payout amount; a throw of either call, a report of
\* not connected or a missing currency give false.
C17_FailsClosed ==
    \A r \in Reqs :
        (req[r].op = "payout" /\ req[r].prov.conn # "none") =>
            (req[r].prov.can <=>
                /\ req[r].prov.conn = "connected"
                /\ req[r].prov.bal = "listed"
                /\ req[r].prov.avail >= req[r].torig.amount)

\* the balance request threw on a connected provider: not auto-processable
C17_Witness ==
    \E r \in Reqs :
        /\ req[r].op = "payout"
        /\ req[r].prov.conn = "connected"
        /\ req[r].prov.bal = "throws"
        /\ ~req[r].prov.can
        /\ req[r].tdoc.status = "requires_manual"

\* the provider's answers of a payout run do not allow automatic processing
CannotAutoProcess(r) ==
    /\ req[r].op = "payout"
    /\ req[r].prov.conn # "none"
    /\ ~ ( /\ req[r].prov.conn = "connected"
           /\ req[r].prov.bal = "listed"
           /\ req[r].prov.avail >= req[r].torig.amount )

\* C18: for a valid pending withdrawal that cannot be auto-processed,
\* processWithdrawal never calls the provider's createPayout and, its save
\* going through, persists requires_manual and returns success true with
\* status requires_manual.
C18_RoutedToManual ==
    \A r \in Reqs :
        CannotAutoProcess(r) =>
            /\ req[r].prov.calls = 0
            /\ req[r].pc \notin {"saveprocessing", "provider", "saveresult"}
            /\ (req[r].pc = "done" /\ ~req[r].prov.dbErr) =>
                  /\ txns[req[r].id].status = "requires_manual"
                  /\ req[r].res.code = "ok"
                  /\ req[r].res.status = "requires_manual"

\* amount 100.00, provider balance 50.00: requires_manual, success true
C18_Witness ==
    \E r \in Reqs :
        /\ CannotAutoProcess(r)
        /\ req[r].torig.amount = 10000
        /\ req[r].prov.conn = "connected"
        /\ req[r].prov.bal = "listed"
        /\ req[r].prov.avail = 5000
        /\ req[r].pc = "done"
        /\ txns[req[r].id].status = "requires_manual"
        /\ req[r].res.code = "ok"

PendingOf(u, type) ==
    {i \in 1..Len(txns) :
        txns[i].uid = u /\ txns[i].type = type /\ txns[i].status = "pending"}

\* C16: at any time an account has at most one pending withdrawal and at most
\* one pending deposit, also when two create requests are interleaved.
C16_OnePending ==
    \A u \in Users :
        /\ Cardinality(PendingOf(u, "withdrawal")) <= 1
        /\ Cardinality(PendingOf(u, "deposit")) <= 1

\* C20: in processMassWithdrawals, when the provider's batch call for one
\* currency group throws, exactly the transactions of that group are set to
\* failed with the same payoutError, and every other group of the call is
\* still submitted and updated from its own results (the store accepting the
\* writes).
C20_GroupIsolation ==
    \A r \in Reqs :
        ( /\ req[r].op = "mass_payout"
          /\ req[r].pc = "done"
          /\ req[r].heard # {}
          /\ \A h \in req[r].heard : h.out # "missing"
          /\ ~req[r].prov.dbErr ) =>
            /\ \A h \in req[r].heard :
                  IF h.out = "throws"
                  THEN /\ txns[h.id].status = "failed"
                       /\ txns[h.id].payoutError = "mass_error"
                  ELSE /\ txns[h.id].status =
                            (IF h.out = "finished" THEN "completed" ELSE "failed")
                       /\ txns[h.id].payoutError = "none"
            /\ req[r].prov.calls =
                  Cardinality({txns[h.id].coin : h \in req[r].heard})

\* the usdt call threw and the eth call went through: both usdt withdrawals
\* failed, the eth one completed
C20_Witness ==
    \E r \in Reqs :
        /\ req[r].op = "mass_payout"
        /\ req[r].pc = "done"
        /\ ~req[r].prov.dbErr
        /\ req[r].prov.calls = 2
        /\ [id |-> 1, out |-> "throws"] \in req[r].heard
        /\ [id |-> 3, out |-> "throws"] \in req[r].heard
        /\ [id |-> 2, out |-> "finished"] \in req[r].heard
        /\ txns[1].status = "failed" /\ txns[3].status = "failed"
        /\ txns[2].status = "completed"

\* C21: a record whose funds were already debited and held for external
\* settlement (here a withdrawal approved by the administrator, its amount
\* debited and standing in the withdraw bucket) that goes to failed or rejected has its amount credited back to
\* the owning account: the account then holds the amount more than the
\* deciding request found on it.
C21_FailureIsCompensated ==
    [][ \A i \in 1..Len(txns) :
          ( /\ txns[i].type = "withdrawal"
            /\ txns[i].status = "approved"
            /\ users[txns[i].uid].withdraw >= txns[i].amount
            /\ txns'[i].status \in {"failed", "rejected"} ) =>
              \E r \in Reqs :
                /\ req[r].id = i
                /\ users'[txns[i].uid].deposit + users'[txns[i].uid].interest
                     = req[r].orig.deposit + req[r].orig.interest + txns[i].amount
      ]_vars

\* C22: a failed notification never blocks or rolls back the transition it
\* accompanies: a deposit, withdrawal or contract decision, or a deposit,
\* withdrawal or contract request, whose mail failed has its record and the
\* account persisted as the handler computed them (the store accepting the
\* writes).
C22_NotificationNeverBlocks ==
    \A r \in Reqs :
        ( /\ req[r].pc = "done"
          /\ req[r].mail = "failed"
          /\ faults = 0 ) =>
            /\ req[r].op \in {"deposit_decision", "withdrawal_update",
                               "contract_update"} =>
                  /\ txns[req[r].id].status = req[r].arg
                  /\ txns[req[r].id].amount = req[r].tdoc.amount
                  /\ users[req[r].u] = req[r].doc
            /\ req[r].op \in {"deposit_create", "withdrawal_create",
                               "contract_create"} =>
                  \E i \in 1..Len(txns) :
                      /\ txns[i].uid = req[r].u
                      /\ txns[i].amount = req[r].amt
                      /\ txns[i].status =
                            (IF req[r].op = "contract_create" THEN "active"
                             ELSE "pending")

\* the mail of a contract rejection failed: the refund and the rejected
\* record are both in the store
C22_Witness ==
    \E r \in Reqs :
        /\ req[r].pc = "done"
        /\ req[r].op = "contract_update"
        /\ req[r].arg = "rejected"
        /\ req[r].mail = "failed"
        /\ faults = 0
        /\ txns[req[r].id].status = "rejected"
        /\ users[req[r].u].deposit = req[r].orig.deposit + req[r].amt
        /\ req[r].amt > 0

\* C23: no operation changes the balance buckets of an account flagged as
\* administrator (u2 here): every such attempt is rejected and the buckets
\* stay as they were.
C23_AdminBucketsFrozen ==
    [][ \A u \in Users : IsAdminAccount(u) => users'[u] = users[u] ]_vars

\* C24: a principal that is not an administrator causes a balance change
\* only on its own account: a request naming another account as its target
\* is rejected and changes nothing.
C24_OwnAccountOnly ==
    \A r \in Reqs :
        ( /\ req[r].op = "contract_create"
          /\ req[r].who # req[r].u
          /\ req[r].who # "u2" ) => ~req[r].wrote

\* C25: every administrative decision that changes a balance or a status
\* (deposit decision, withdrawal status update, contract status update,
\* transaction approval) emits an audit event with before and after
\* snapshots on every path on which its change was persisted.
C25_DecisionAudited ==
    \A r \in Reqs :
        ( /\ req[r].pc = "done"
          /\ req[r].op \in {"deposit_decision", "withdrawal_update",
                             "contract_update", "txn_approve"}
          /\ req[r].wrote ) => req[r].audit

\* C26: when validation of a pending withdrawal fails (missing or malformed
\* address or currency, non-positive amount), processWithdrawal leaves the
\* record failed with the reason in payoutError, returns success false and
\* has not called the provider's payout (the store accepting the writes); and
\* it never changes a record that is not a pending withdrawal (processing
\* being what the call itself makes of a pending one).
C26_ValidationFailureFails ==
    /\ [] \A r \in Reqs :
            ( /\ req[r].op = "payout"
              /\ req[r].pc = "done"
              /\ ~req[r].prov.dbErr
              /\ req[r].torig.type = "withdrawal"
              /\ req[r].torig.status = "pending"
              /\ \/ req[r].torig.amount <= 0
                 \/ req[r].torig.addr < 10
                 \/ req[r].torig.coin = "" ) =>
                /\ txns[req[r].id].status = "failed"
                /\ txns[req[r].id].payoutError \in {"validation", "missing_wallet"}
                /\ req[r].res.code = "failed"
                /\ req[r].prov.calls = 0
    /\ [][ \A i \in 1..Len(txns) :
              txns'[i] # txns[i] =>
                 /\ txns[i].type = "withdrawal"
                 /\ txns[i].status \in {"pending", "processing"} ]_vars

C28_DebitOnlyOnApproval ==
    \A r \in Reqs :
        ( /\ req[r].pc = "done"
          /\ req[r].u \in Users
          /\ req[r].res.code \in {"ok", "error", "insufficient"} ) =>
            LET before == req[r].orig
                amount == req[r].amt
            IN  /\ req[r].op = "withdrawal_create" => users[req[r].u] = before
                /\ ( /\ req[r].op = "withdrawal_update"
                     /\ req[r].arg = "rejected" ) => users[req[r].u] = before
                /\ ( /\ req[r].op = "withdrawal_update"
                     /\ users[req[r].u] # before ) =>
                       /\ req[r].arg = "approved"
                       /\ req[r].torig.status = "pending"
                       /\ txns[req[r].id].status = "approved"
                       /\ users[req[r].u].withdraw = before.withdraw + amount
                       /\ users[req[r].u].bonus = before.bonus
                       /\ users[req[r].u].deposit =
                             (IF before.deposit >= amount
                              THEN before.deposit - amount ELSE 0)
                       /\ users[req[r].u].deposit + users[req[r].u].interest
                             = before.deposit + before.interest - amount

\* C29: completing a contract of principal P and plan interest I credits
\* deposit by exactly P and interest by exactly I and persists the record as
\* completed, and the payout is made only from a contract that was not
\* already rejected or completed.
C29_CompletionPaysOnce ==
    \A r \in Reqs :
        ( /\ req[r].op = "contract_update"
          /\ req[r].arg = "completed"
          /\ req[r].pc = "done"
          /\ req[r].u \in Users
          /\ req[r].res.code = "ok" ) =>
            /\ req[r].torig.status \notin {"rejected", "completed"}
            /\ users[req[r].u] =
                  [req[r].orig EXCEPT !.deposit = @ + req[r].torig.amount,
                                      !.interest = @ + req[r].torig.interest]
            /\ txns[req[r].id].status = "completed"

\* C30: the status the provider returns for a payout is mapped without
\* regard to case: waiting or confirming to processing, confirmed or finished
\* to completed, failed or refunded to failed, anything else to pending; the
\* mapped value is what is persisted on the record and returned (the store
\* accepting the writes).
C30_StatusMapping ==
    \A r \in Reqs :
        ( /\ req[r].op = "payout"
          /\ req[r].pc = "done"
          /\ req[r].prov.out \notin {"none", "throws"}
          /\ ~req[r].prov.dbErr ) =>
            LET out == req[r].prov.out
                mapped ==
                    IF out \in {"waiting", "Confirming"} THEN "processing"
                    ELSE IF out \in {"confirmed", "finished", "FINISHED"}
                    THEN "completed"
                    ELSE IF out \in {"failed", "Refunded"} THEN "failed"
                    ELSE "pending"
            IN  /\ txns[req[r].id].status = mapped
                /\ req[r].res.status = mapped

\* the provider answered FINISHED: the record is completed
C30_Witness ==
    \E r \in Reqs :
        /\ req[r].op = "payout"
        /\ req[r].pc = "done"
        /\ req[r].prov.out = "FINISHED"
        /\ ~req[r].prov.dbErr
        /\ req[r].torig.status = "processing"
        /\ txns[req[r].id].status = "completed"

\* C31: whenever the payout orchestrator moves a record into a terminal
\* status (completed or failed), on whichever path, processedAt is set on
\* that record.
C31_ProcessedAtOnTerminal ==
    [][ \A i \in 1..Len(txns) :
          ( /\ txns'[i].status \in {"completed", "failed"}
            /\ txns[i].status \notin {"completed", "failed"} ) =>
              txns'[i].processedAt ]_vars

\* C32: the sign of a TransactionRecord's amount follows its type: records
\* that debit the account (withdrawal, transfer out, purchases, card funding,
\* flight booking, contract stake) carry a negative amount, records that
\* credit it (deposit, redemption, refund) a positive one.
C32_AmountSign ==
    \A i \in 1..Len(txns) :
        /\ txns[i].type \in {"withdrawal", "contract", "external_transfer",
                              "crypto_withdrawal", "gift_card_purchase",
                              "virtual_card_purchase", "flight_booking",
                              "card_funding"} => txns[i].amount < 0
        /\ txns[i].type \in {"deposit", "gift_card_redemption",
                              "card_refund"} => txns[i].amount > 0

\* C33: deleting an account first removes every TransactionRecord the
\* account owns, so that no record references the deleted account, and
\* leaves the records of every other account as they were.
C33_DeletionCascades ==
    \A r \in Reqs :
        ( /\ req[r].op = "user_delete"
          /\ req[r].pc = "done"
          /\ req[r].res.code = "ok" ) =>
            /\ users[req[r].u].deleted
            /\ \A i \in 1..Len(txns) : txns[i].uid # req[r].u
            /\ \A i \in 1..Len(req[r].batch) :
                  req[r].batch[i].uid # req[r].u => txns[i] = req[r].batch[i]

\* C34: the available balance deposit + interest + bonus - withdraw of every
\* account is never negative, in particular after an administrator has
\* approved a pending withdrawal.
C34_AvailableNonNegative ==
    \A u \in Users : getAvailableBalance(users[u]) >= 0

\* deposit + interest over all accounts
Holdings(us) ==
    us["u1"].deposit + us["u1"].interest + us["u2"].deposit + us["u2"].interest

\* C36: an internal transfer conserves value: once the requests have
\* settled, deposit + interest summed over all accounts is what it was, also
\* for a transfer of an account to itself and for interleaved transfers, and
\* a transfer that succeeded alone has moved exactly its amount from the
\* sender to the recipient's deposit.
C36_TransferConserves ==
    /\ (\A r \in Reqs : req[r].pc \in {"idle", "done"}) =>
          Holdings(users) = Holdings(opening)
    /\ \A r \in Reqs :
        ( /\ req[r].op = "internal_transfer"
          /\ Succeeded(r)
          /\ maxActive = 1
          /\ req[r].u # req[r].arg ) =>
            /\ users[req[r].u].deposit + users[req[r].u].interest =
                  req[r].orig.deposit + req[r].orig.interest - req[r].amt
            /\ users[req[r].arg].deposit =
                  req[r].batch[1].deposit + req[r].amt

\* C35: in processMassWithdrawals a transaction that has been persisted
\* with the status of its own provider result is not overwritten to failed
\* later in the call, and the group-wide failed marking reaches a
\* transaction only when the batch call of its group threw, also when the
\* provider returns fewer results than submitted or a later save fails.
C35_PersistedResultKept ==
    [][ \A r \in Reqs : \A h \in req[r].heard :
          /\ ( /\ h.out = "finished"
               /\ txns[h.id].status = "completed" ) =>
                   txns'[h.id].status = "completed"
          /\ ( /\ h.out # "throws"
               /\ req'[r].op = "mass_payout" ) =>
                   txns'[h.id].payoutError # "mass_error" ]_vars

\* the precondition of a mass payout: a list that is not empty, names no
\* id twice and names only existing withdrawals in status pending
MassPrecondition(ids) ==
    /\ ids # <<>>
    /\ \A j, k \in 1..Len(ids) : ids[j] = ids[k] => j = k
    /\ \A k \in 1..Len(ids) :
          /\ ids[k] \in 1..Len(txns)
          /\ txns[ids[k]].type = "withdrawal"
          /\ txns[ids[k]].status = "pending"

\* C39: processMassWithdrawals is all-or-nothing on its precondition: for a
\* list that is empty, names an id twice or names an id that is not an
\* existing pending withdrawal it makes no provider call, changes no record
\* and returns success false with status failed.
C39_MassPrecondition ==
    [][ \A r \in Reqs, ids \in MassRequests :
          (ProcessMass(r, ids) /\ ~MassPrecondition(ids)) =>
              /\ txns' = txns
              /\ users' = users
              /\ req'[r].pc = "done"
              /\ req'[r].res = PayoutRes(FALSE, "failed")
              /\ req'[r].prov.calls = 0
              /\ ~req'[r].wrote ]_vars

\* a call was turned down for a duplicate id or, after an earlier call has
\* paid it, for a completed withdrawal
C39_Witness ==
    \E r \in Reqs :
        /\ req[r].op = "mass_payout"
        /\ req[r].pc = "done"
        /\ ~req[r].prov.dbErr
        /\ req[r].res = PayoutRes(FALSE, "failed")
        /\ req[r].prov.calls = 0
        /\ \/ req[r].todo = <<1, 1>>
           \/ req[r].todo = <<2>> /\ txns[2].status = "completed"

\* C38: a cancelled card is absorbing: once a cancel has succeeded the card
\* stays cancelled with balance 0 under every later fund, freeze/unfreeze or
\* cancel request, a request that finds the card cancelled changes no bucket
\* of the account, and two interleaved cancel requests for the same card
\* refund its remaining balance to the account exactly once.
C38_CancelledAbsorbing ==
    [][ /\ \A i \in 1..Len(cards) :
              (cards[i].status = "cancelled" /\ cards[i].balance = 0) =>
                  cards'[i] = cards[i]
        /\ \A r \in Reqs :
              ( /\ req[r].op \in {"card_funding", "card_freeze", "card_refund"}
                /\ req[r].corig.status = "cancelled" ) =>
                    /\ req[r].pc = "done"
                    /\ ~req[r].wrote
        /\ \A r \in Reqs :
              ( /\ req[r].op = "card_refund"
                /\ req[r].pc = "save"
                /\ users'[req[r].u].deposit > users[req[r].u].deposit ) =>
                    ~\E o \in Reqs \ {r} :
                        /\ req[o].op = "card_refund"
                        /\ req[o].id = req[r].id
                        /\ req[o].wrote ]_vars

\* C37: the deposit decision and the withdrawal status update change account
\* balances only for a record of the matching type: a deposit decision
\* addressed with a record that is no deposit, and a withdrawal update
\* addressed with a record that is no withdrawal, leave all buckets of all
\* accounts unchanged.
C37_MatchingTypeOnly ==
    [][ \A r \in Reqs :
          ( \/ /\ req[r].op = "deposit_decision"
               /\ req[r].torig.type # "deposit"
            \/ /\ req[r].op = "withdrawal_update"
               /\ req[r].torig.type # "withdrawal" ) =>
                users' = users ]_vars

====
